---- MODULE Spec2Model ----
(***************************************************************************)
(* Model of the openroast backend core: RoastSession (core/session.py),    *)
(* MachineManager (core/manager.py), the live WebSocket endpoint           *)
(* (ws/live.py) and ModbusDriver (drivers/modbus.py), both as the manager   *)
(* uses it and called on its own.                                          *)
(*                                                                         *)
(* Conventions                                                             *)
(*  - Python None is the string "None" where the other values are strings  *)
(*    and the empty tuple NoValue elsewhere; an optional number x is the   *)
(*    one-element tuple <<x>>.                                             *)
(*  - A raised exception is a field  raised  holding the exception class   *)
(*    name, "none" when the call returned normally.                        *)
(*  - Normalized control values (floats in 0.0-1.0) and native control     *)
(*    values are fixed-point numbers in tenths: 7 is 0.7, 475 is 47.5.     *)
(*  - time.monotonic() is the variable now, counted in ticks of TickMs     *)
(*    milliseconds, one sampling interval of the stored machine.           *)
(***************************************************************************)
EXTENDS Integers, Sequences, FiniteSets, TLC

VARIABLES
    instances,      \* MachineManager._instances: machine id -> MachineInstance
    sampling_task,  \* machine id -> state of the asyncio task running _sampling_loop
    sleep_until,    \* machine id -> monotonic ms at which the loop's asyncio.sleep ends
    now,            \* monotonic clock, in ticks
    ws_open,        \* observer -> machine id its live_data handler serves, or None
    handler,        \* observer -> where its live_data handler is suspended
    modbus,         \* a ModbusDriver used on its own, and where its connect() is
    sim,            \* the SimulatorManager, its storage and the calls suspended in it
    connects,       \* connect_machine calls awaiting driver.connect(), replaced instances
    fanout,         \* machine id -> the _broadcast its sampling loop is suspended in
    call            \* the operation that ran last, its inputs and its outcome

vars == <<instances, sampling_task, sleep_until, now, ws_open, handler, modbus,
          sim, connects, fanout, call>>

None == "None"
NoValue == << >>

(***************************************************************************)
(* Bounds of the model.                                                    *)
(***************************************************************************)
MaxTicks == 2           \* clock ticks explored by the manager specifications
MaxRingTicks == 122     \* clock ticks explored by the ring-buffer specification
MaxLoopTicks == 5       \* clock ticks explored by the sampling-loop specification
MaxControlLog == 2      \* control-log entries per channel explored
MaxEvents == 1          \* events per session explored
MaxSyncTicks == 2       \* clock ticks explored by the sync specification
MaxReplaced == 1
MaxSimStarts == 3       \* start() calls of the simulator manager explored
CodecSpan == 3          \* register values explored on each side of a boundary

(***************************************************************************)
(* Program constants.                                                      *)
(***************************************************************************)
_RING_BUFFER_SIZE == 120
_MAX_CONSECUTIVE_ERRORS == 5
SamplingIntervalMs == 500
TickMs == SamplingIntervalMs

MachineIds == {"m1", "m2", "m3"}
Callers == {"a", "b"}
CatalogIds == {"k1", "k2"}
Observers == {"ws1", "ws2"}

\* ControlConfig entries of the stored machine.  command is the parsed
\* command template: the sequence of its ';'-separated calls, each with its
\* function name, its number of arguments and whether one of them is the
\* placeholder {} ("writeSingle(1,12290,{});mwrite(1,12318,65531,4)" for air).
GasControl ==
    [channel |-> "gas", min |-> 0, max |-> 100,
     command |-> << [func |-> "writeSingle", nargs |-> 3,
                     placeholder |-> TRUE] >>]
AirControl ==
    [channel |-> "air", min |-> 35, max |-> 60,
     command |-> << [func |-> "writeSingle", nargs |-> 3,
                     placeholder |-> TRUE],
                    [func |-> "mwrite", nargs |-> 4,
                     placeholder |-> FALSE] >>]
DrumControl ==
    [channel |-> "drum", min |-> 0, max |-> 100, command |-> << >>]
FanControl ==
    [channel |-> "fan", min |-> 0, max |-> 100,
     command |-> << [func |-> "write", nargs |-> 3,
                     placeholder |-> TRUE] >>]

\* MachineStorage: the saved machines by id.  "m1" is a Modbus TCP machine,
\* "m3" a machine of a protocol that has no driver, "m2" is not stored.
Storage ==
    [m \in {"m1", "m3"} |->
        [name |-> "Test Machine",
         protocol |-> IF m = "m1" THEN "modbus_tcp" ELSE "s7",
         sampling_interval_ms |-> SamplingIntervalMs,
         extra_channels |-> <<"Inlet">>,
         controls |-> <<GasControl, AirControl, DrumControl, FanControl>>]]

storage_get(machine_id) ==
    IF machine_id \in DOMAIN Storage THEN Storage[machine_id] ELSE NoValue

(***************************************************************************)
(* RoastSession (core/session.py).                                         *)
(***************************************************************************)
EmptyDict == [k \in {} |-> << >>]

\* RoastSession.__init__
RoastSession(machine_name) ==
    [state |-> "idle", data |-> << >>, events |-> << >>,
     controls |-> EmptyDict, machine_name |-> machine_name]

Returned(s) == [raised |-> "none", session |-> s]
Raised(exc, s) == [raised |-> exc, session |-> s]

start_monitoring_AnyState(s) ==
    Returned([s EXCEPT !.state = "monitoring"])

start_monitoring(s) ==
    IF s.state \notin {"idle", "finished"}
    THEN Raised("ValueError", s)
    ELSE Returned([s EXCEPT !.state = "monitoring"])

start_recording_ClearsFirst(s) ==
    LET cleared == [s EXCEPT !.data = << >>, !.events = << >>,
                             !.controls = EmptyDict]
    IN IF s.state # "monitoring"
       THEN Raised("ValueError", cleared)
       ELSE Returned([cleared EXCEPT !.state = "recording"])

start_recording_KeepsLog(s) ==
    IF s.state # "monitoring"
    THEN Raised("ValueError", s)
    ELSE Returned([s EXCEPT !.state = "recording", !.data = << >>,
                            !.events = << >>])

start_recording(s) ==
    IF s.state # "monitoring"
    THEN Raised("ValueError", s)
    ELSE Returned([s EXCEPT !.state = "recording", !.data = << >>,
                            !.events = << >>, !.controls = EmptyDict])

stop_monitoring(s) ==
    IF s.state # "monitoring"
    THEN Raised("ValueError", s)
    ELSE Returned([s EXCEPT !.state = "idle"])

stop_recording(s) ==
    IF s.state # "recording"
    THEN Raised("ValueError", s)
    ELSE Returned([s EXCEPT !.state = "finished"])

add_reading_Always(s, timestamp_ms, et, bt) ==
    [s EXCEPT !.data = Append(@, [timestamp_ms |-> timestamp_ms,
                                  et |-> et, bt |-> bt])]

add_reading(s, timestamp_ms, et, bt) ==
    IF s.state = "recording"
    THEN [s EXCEPT !.data = Append(@, [timestamp_ms |-> timestamp_ms,
                                       et |-> et, bt |-> bt])]
    ELSE s

add_control_change_AnyState(s, timestamp_ms, channel, value) ==
    LET old == IF channel \in DOMAIN s.controls
               THEN s.controls[channel] ELSE << >>
        new == Append(old, <<timestamp_ms, value>>)
    IN [s EXCEPT !.controls =
            [c \in (DOMAIN s.controls) \cup {channel} |->
                IF c = channel THEN new ELSE s.controls[c]]]

add_control_change(s, timestamp_ms, channel, value) ==
    IF s.state \in {"monitoring", "recording"}
    THEN LET old == IF channel \in DOMAIN s.controls
                    THEN s.controls[channel] ELSE << >>
             new == Append(old, <<timestamp_ms, value>>)
         IN [s EXCEPT !.controls =
                 [c \in (DOMAIN s.controls) \cup {channel} |->
                     IF c = channel THEN new ELSE s.controls[c]]]
    ELSE s

add_event_AnyState(s, event_type, timestamp_ms) ==
    Returned([s EXCEPT !.events =
                 Append(@, [event_type |-> event_type,
                            timestamp_ms |-> timestamp_ms,
                            auto_detected |-> FALSE])])

add_event(s, event_type, timestamp_ms) ==
    IF s.state # "recording"
    THEN Raised("ValueError", s)
    ELSE Returned([s EXCEPT !.events =
                      Append(@, [event_type |-> event_type,
                                 timestamp_ms |-> timestamp_ms,
                                 auto_detected |-> FALSE])])

\* RoastSession.to_profile: the exported profile, ValueError when no sample
\* is stored
to_profile(s) ==
    IF s.data = << >>
    THEN [raised |-> "ValueError", profile |-> NoValue]
    ELSE [raised |-> "none",
          profile |-> [machine |-> s.machine_name, temperatures |-> s.data,
                       events |-> s.events, controls |-> s.controls]]

(***************************************************************************)
(* ModbusDriver (drivers/modbus.py), as far as the manager observes it.    *)
(* transport is what the Modbus transport does with a request:             *)
(*   "ok"             the request is answered                              *)
(*   "io_exception"   pymodbus raises ConnectionException/ModbusIOException*)
(*   "error_response" the response is a Modbus exception (resp.isError())  *)
(*   "unexpected"     any other exception                                  *)
(***************************************************************************)
ReadTransports == {"ok", "io_exception", "error_response", "unexpected"}

\* ModbusDriver.__init__
ModbusDriver(machine) ==
    IF machine.protocol \notin {"modbus_rtu", "modbus_tcp"}
    THEN [raised |-> "ValueError", driver |-> NoValue]
    ELSE [raised |-> "none",
          driver |-> [state |-> "disconnected", client |-> None]]

\* drivers/factory.py create_driver
create_driver(machine) ==
    IF machine.protocol \in {"modbus_rtu", "modbus_tcp"}
    THEN ModbusDriver(machine)
    ELSE [raised |-> "NotImplementedError", driver |-> NoValue]

\* ModbusDriver.connect up to its await (lines 80-99): returned when the
\* driver is connected already, otherwise the state is CONNECTING and a
\* transport client has been created; opened is the number of clients made
connect_begin(driver) ==
    IF driver.state = "connected"
    THEN [returned |-> TRUE, driver |-> driver, opened |-> 0]
    ELSE [returned |-> FALSE,
          driver |-> [state |-> "connecting", client |-> "client"],
          opened |-> 1]

connect_end_KeepsClient(driver, handshake) ==
    CASE driver.client = None ->
            [raised |-> "AttributeError", driver |-> [driver EXCEPT !.state = "error"]]
      [] handshake = "connected" ->
            [raised |-> "none", driver |-> [driver EXCEPT !.state = "connected"]]
      [] handshake = "unconnected" ->
            [raised |-> "ConnectionError", driver |-> [driver EXCEPT !.state = "error"]]
      [] OTHER ->
            [raised |-> "Exception", driver |-> [driver EXCEPT !.state = "error"]]

\* ModbusDriver.connect from its await on (lines 99-108); handshake is what
\* client.connect() did: "connected", "unconnected" (it returned but
\* client.connected is false) or "raises".  The client is gone when a
\* disconnect() ran during the await.
connect_end(driver, handshake) ==
    CASE driver.client = None ->
            [raised |-> "AttributeError",
             driver |-> [state |-> "error", client |-> None]]
      [] handshake = "connected" ->
            [raised |-> "none", driver |-> [driver EXCEPT !.state = "connected"]]
      [] handshake = "unconnected" ->
            [raised |-> "ConnectionError",
             driver |-> [state |-> "error", client |-> None]]
      [] OTHER ->
            [raised |-> "Exception",
             driver |-> [state |-> "error", client |-> None]]

connect_Silent(driver, connect_ok) ==
    LET begun == connect_begin(driver)
        ended == connect_end(begun.driver,
                             IF connect_ok THEN "connected" ELSE "unconnected")
    IN IF begun.returned
       THEN [raised |-> "none", driver |-> driver]
       ELSE [raised |-> "none", driver |-> ended.driver]

\* ModbusDriver.connect run without interruption; connect_ok: the
\* transport's handshake succeeds
connect(driver, connect_ok) ==
    LET begun == connect_begin(driver)
    IN IF begun.returned
       THEN [raised |-> "none", driver |-> driver]
       ELSE connect_end(begun.driver,
                        IF connect_ok THEN "connected" ELSE "unconnected")

\* ModbusDriver.disconnect; close_ok: client.close() returns
disconnect(driver, close_ok) ==
    IF driver.client # None /\ ~close_ok
    THEN [raised |-> "Exception", driver |-> driver]
    ELSE [raised |-> "none",
          driver |-> [state |-> "disconnected", client |-> None]]

\* ModbusDriver.info().name
DriverName(machine) ==
    IF machine.protocol = "modbus_rtu" THEN "Modbus RTU" ELSE "Modbus TCP"

\* ModbusDriver._ensure_connected
_ensure_connected(driver) ==
    IF driver.state # "connected" \/ driver.client = None
    THEN "ConnectionError" ELSE "none"

\* ModbusDriver.read_temperatures: one register read per configured channel;
\* the result is the exception raised and the driver afterwards.
read_temperatures(driver, transport) ==
    IF _ensure_connected(driver) # "none"
    THEN [raised |-> "ConnectionError", driver |-> driver]
    ELSE CASE transport = "ok" ->
                [raised |-> "none", driver |-> driver]
           [] transport = "io_exception" ->
                [raised |-> "ConnectionError",
                 driver |-> [driver EXCEPT !.state = "error"]]
           [] transport = "error_response" ->
                [raised |-> "ConnectionError", driver |-> driver]
           [] OTHER ->
                [raised |-> "Exception", driver |-> driver]

\* ModbusDriver.read_extra_channels: a failing channel read is logged and
\* yields 0.0, but _read_register has already set the state to ERROR when the
\* transport raised.
read_extra_channels(driver, extra_channels, extra_fault) ==
    IF _ensure_connected(driver) # "none"
    THEN [raised |-> "ConnectionError", driver |-> driver]
    ELSE [raised |-> "none",
          driver |-> IF extra_fault /\ extra_channels # << >>
                     THEN [driver EXCEPT !.state = "error"] ELSE driver]

\* int(value) of a native value in tenths: truncation toward zero
IntOf(value10) ==
    IF value10 >= 0 THEN value10 \div 10 ELSE -((-value10) \div 10)

ValidCall(c) ==
    \/ c.func = "writeSingle" /\ c.nargs = 3
    \/ c.func = "mwrite" /\ c.nargs = 4

\* index of the first call of the template that _execute_single_command
\* rejects with ValueError; Len + 1 when there is none
FirstInvalid(command) ==
    IF \E i \in 1..Len(command) : ~ValidCall(command[i])
    THEN CHOOSE i \in 1..Len(command) :
            /\ ~ValidCall(command[i])
            /\ \A j \in 1..(i - 1) : ValidCall(command[j])
    ELSE Len(command) + 1

_execute_command_Continues(driver, command, value, fail_at) ==
    LET failed == fail_at \in 1..Len(command)
        ran == SelectSeq([i \in 1..Len(command) |-> i], LAMBDA i : i # fail_at)
        done == [j \in 1..Len(ran) |->
                    [func |-> command[ran[j]].func, call |-> ran[j],
                     value |-> IF command[ran[j]].placeholder
                               THEN <<value>> ELSE NoValue]]
    IN IF FirstInvalid(command) <= Len(command)
       THEN [raised |-> "ValueError", driver |-> driver, writes |-> << >>]
       ELSE IF failed
       THEN [raised |-> "ConnectionError",
             driver |-> [driver EXCEPT !.state = "error"], writes |-> done]
       ELSE [raised |-> "none", driver |-> driver, writes |-> done]

\* ModbusDriver._execute_command: the calls run left to right; fail_at is
\* the call at which the transport raises (0: at none).
_execute_command(driver, command, value, fail_at) ==
    LET bad == FirstInvalid(command)
        io == IF fail_at = 0 \/ fail_at > Len(command)
              THEN Len(command) + 1 ELSE fail_at
        stop == IF bad <= io THEN bad ELSE io
        done == [i \in 1..(stop - 1) |->
                    [func |-> command[i].func, call |-> i,
                     value |-> IF command[i].placeholder
                               THEN <<value>> ELSE NoValue]]
    IN IF stop > Len(command)
       THEN [raised |-> "none", driver |-> driver, writes |-> done]
       ELSE IF bad <= io
       THEN [raised |-> "ValueError", driver |-> driver, writes |-> done]
       ELSE [raised |-> "ConnectionError",
             driver |-> [driver EXCEPT !.state = "error"], writes |-> done]

\* ModbusDriver.write_control
write_control(driver, controls, channel, value, fail_at) ==
    IF _ensure_connected(driver) # "none"
    THEN [raised |-> "ConnectionError", driver |-> driver, writes |-> << >>]
    ELSE IF \A i \in 1..Len(controls) : controls[i].channel # channel
    THEN [raised |-> "NotImplementedError", driver |-> driver,
          writes |-> << >>]
    ELSE LET control == controls[CHOOSE i \in 1..Len(controls) :
                                    controls[i].channel = channel]
         IN IF control.command = << >>
            THEN [raised |-> "NotImplementedError", driver |-> driver,
                  writes |-> << >>]
            ELSE _execute_command(driver, control.command,
                                  IntOf(value), fail_at)

(***************************************************************************)
(* Frames (models/ws_messages.py).                                         *)
(***************************************************************************)
ErrorMessage(code, recoverable) ==
    [type |-> "error", code |-> code, recoverable |-> recoverable]

StateMessage(state, previous_state) ==
    [type |-> "state", state |-> state, previous_state |-> previous_state]

ConnectionMessage(driver_state, driver_name) ==
    [type |-> "connection", driver_state |-> driver_state,
     driver_name |-> driver_name]

ControlAckMessage(channel, value, applied, enabled, message) ==
    [type |-> "control_ack", channel |-> channel, value |-> value,
     applied |-> applied, enabled |-> enabled, message |-> message]

CommandActions ==
    {"start_monitoring", "stop_monitoring", "start_recording",
     "stop_recording", "mark_event", "reset", "sync"}

(***************************************************************************)
(* MachineManager (core/manager.py): helpers.                              *)
(***************************************************************************)
MonotonicMs == now * TickMs

\* deque(maxlen=_RING_BUFFER_SIZE).append
RingAppend_Unbounded(ring, msg) == Append(ring, msg)

RingAppend(ring, msg) ==
    IF Len(ring) >= _RING_BUFFER_SIZE
    THEN Append(Tail(ring), msg)
    ELSE Append(ring, msg)

\* MachineManager._compute_ror, in degrees per minute
_compute_ror(current, previous, interval_ms) ==
    IF previous = NoValue \/ interval_ms <= 0
    THEN 0
    ELSE ((current - previous[1]) * 60000) \div interval_ms

\* MachineManager._find_control
_find_control(machine, channel) ==
    IF \E i \in 1..Len(machine.controls) : machine.controls[i].channel = channel
    THEN machine.controls[CHOOSE i \in 1..Len(machine.controls) :
            /\ machine.controls[i].channel = channel
            /\ \A j \in 1..(i - 1) : machine.controls[j].channel # channel]
    ELSE NoValue

\* MachineManager._scale_to_native, normalized and result in tenths
_scale_to_native(control, normalized) ==
    control.min * 10 + normalized * (control.max - control.min)

_broadcast_KeepDead(subscribers, dead) == subscribers

\* MachineManager._broadcast: dead are the subscribers whose send_json
\* raises; the result is the subscriber set afterwards.
_broadcast(subscribers, dead) == subscribers \ dead

Without(f, k) == [x \in (DOMAIN f) \ {k} |-> f[x]]
With(f, k, v) == [x \in (DOMAIN f) \cup {k} |-> IF x = k THEN v ELSE f[x]]

\* MachineInstance as connect_machine constructs it
MachineInstance(machine, driver) ==
    [machine |-> machine,
     driver |-> driver,
     session |-> RoastSession(machine.name),
     subscribers |-> {},
     ring_buffer |-> << >>,
     prev_et |-> NoValue,
     prev_bt |-> NoValue,
     start_time_ms |-> MonotonicMs,
     consecutive_errors |-> 0,
     control_enabled |-> EmptyDict]

(***************************************************************************)
(* MachineManager: connect_machine and disconnect_machine.                 *)
(***************************************************************************)
\* connect_ok: whether the transport's handshake in driver.connect() succeeds
connect_machine(machine_id, connect_ok) ==
    LET machine == storage_get(machine_id)
        outcome(raised, created) ==
            [op |-> "connect_machine", machine_id |-> machine_id,
             connect_ok |-> connect_ok,
             raised |-> raised, created |-> created]
        failed(raised) ==
            /\ call' = outcome(raised, FALSE)
            /\ UNCHANGED <<sim, connects, fanout, modbus, instances, sampling_task, sleep_until, now, ws_open, handler>>
    IN IF machine_id \in DOMAIN instances
       THEN /\ call' = outcome("none", FALSE)
            /\ UNCHANGED <<sim, connects, fanout, modbus, instances, sampling_task, sleep_until, now, ws_open, handler>>
       ELSE IF machine = NoValue
       THEN failed("ValueError")
       ELSE LET made == create_driver(machine)
            IN IF made.raised # "none"
               THEN failed(made.raised)
               ELSE LET connected == connect(made.driver, connect_ok)
                    IN IF connected.raised # "none"
                       THEN failed(connected.raised)
                       ELSE /\ instances' =
                                  With(instances, machine_id,
                                       MachineInstance(machine, connected.driver))
                            /\ sampling_task' =
                                  [sampling_task EXCEPT ![machine_id] = "running"]
                            /\ sleep_until' =
                                  [sleep_until EXCEPT ![machine_id] = MonotonicMs]
                            /\ call' = outcome("none", TRUE)
                            /\ UNCHANGED <<sim, connects, fanout, modbus, now, ws_open, handler>>

CancelTask_Skip(task) == task

\* sampling_task.cancel() followed by await sampling_task, for a task that is
\* not done
CancelTask(task) == IF task = "running" THEN "cancelled" ELSE task

\* dead: the subscribers whose send_json raises during the final broadcast;
\* close_ok: whether driver.disconnect() returns.  task_at_disconnect is the
\* state of the sampling task when driver.disconnect() is called.
disconnect_machine(machine_id, dead, close_ok) ==
    IF machine_id \notin DOMAIN instances
    THEN /\ call' = [op |-> "disconnect_machine", machine_id |-> machine_id,
                     raised |-> "none", task_at_disconnect |-> "none",
                     driver_raised |-> "none",
                     frame |-> NoValue, sent_to |-> {}, failed |-> {}]
         /\ UNCHANGED <<sim, connects, fanout, modbus, instances, sampling_task, sleep_until, now, ws_open, handler>>
    ELSE LET instance == instances[machine_id]
             task == CancelTask(sampling_task[machine_id])
             closed == disconnect(instance.driver, close_ok)
         IN /\ dead \subseteq instance.subscribers
            /\ instances' = Without(instances, machine_id)
            /\ sampling_task' = [sampling_task EXCEPT ![machine_id] = task]
            /\ call' = [op |-> "disconnect_machine",
                        machine_id |-> machine_id, raised |-> "none",
                        task_at_disconnect |-> task,
                        driver_raised |-> closed.raised,
                        frame |-> ConnectionMessage("disconnected",
                                      DriverName(instance.machine)),
                        sent_to |-> instance.subscribers \ dead,
                        failed |-> dead]
            /\ UNCHANGED <<sim, connects, fanout, modbus, sleep_until, now, ws_open, handler>>

(***************************************************************************)
(* MachineManager.connect_machine run by concurrent callers.  The          *)
(* coroutine is suspended once, in `await driver.connect()` (line 106).     *)
(* connects.pending[caller] holds the locals of the call suspended there;   *)
(* connects.replaced[m] counts the instances of m that a later call         *)
(* overwrote in _instances: loops of them whose sampling task was running   *)
(* (nothing cancels it any more) and drivers of them that were connected    *)
(* (nothing disconnects them any more).                                     *)
(***************************************************************************)
NoConnects ==
    [pending |-> [c \in Callers |-> NoValue],
     replaced |-> [m \in MachineIds |-> [loops |-> 0, drivers |-> 0]]]

\* connect_machine, lines 97-106: up to the await of driver.connect()
connect_machine_begin(caller, machine_id) ==
    /\ connects.pending[caller] = NoValue
    /\ LET machine == storage_get(machine_id)
           made == create_driver(machine)
           outcome(raised, suspended) ==
               [op |-> "connect_machine_begin", caller |-> caller,
                machine_id |-> machine_id, raised |-> raised,
                suspended |-> suspended]
           returns(raised) ==
               /\ call' = outcome(raised, FALSE)
               /\ UNCHANGED connects
       IN IF machine_id \in DOMAIN instances
          THEN returns("none")
          ELSE IF machine = NoValue
          THEN returns("ValueError")
          ELSE IF made.raised # "none"
          THEN returns(made.raised)
          ELSE /\ connects' =
                     [connects EXCEPT !.pending[caller] =
                         <<[machine_id |-> machine_id, machine |-> machine,
                            driver |-> connect_begin(made.driver).driver]>>]
               /\ call' = outcome("none", TRUE)
    /\ UNCHANGED <<sim, fanout, modbus, instances, sampling_task, sleep_until,
                   now, ws_open, handler>>

\* connect_machine, lines 106-120: driver.connect() ends; when it returned,
\* the instance is stored under machine_id, whatever is stored there, and
\* its sampling task is created
connect_machine_end(caller, handshake) ==
    /\ connects.pending[caller] # NoValue
    /\ LET locals == connects.pending[caller][1]
           machine_id == locals.machine_id
           ended == connect_end(locals.driver, handshake)
           outcome(raised, created) ==
               [op |-> "connect_machine_end", caller |-> caller,
                machine_id |-> machine_id, handshake |-> handshake,
                raised |-> raised, created |-> created]
           old == connects.replaced[machine_id]
           replaced ==
               IF machine_id \notin DOMAIN instances
               THEN old
               ELSE [loops |-> old.loops +
                        (IF sampling_task[machine_id] = "running"
                         THEN 1 ELSE 0),
                     drivers |-> old.drivers +
                        (IF instances[machine_id].driver.state = "connected"
                         THEN 1 ELSE 0)]
       IN IF ended.raised # "none"
          THEN /\ connects' = [connects EXCEPT !.pending[caller] = NoValue]
               /\ call' = outcome(ended.raised, FALSE)
               /\ UNCHANGED <<instances, sampling_task, sleep_until>>
          ELSE /\ replaced.loops <= MaxReplaced
               /\ replaced.drivers <= MaxReplaced
               /\ connects' = [pending |->
                                  [connects.pending EXCEPT ![caller] = NoValue],
                               replaced |->
                                  [connects.replaced EXCEPT
                                      ![machine_id] = replaced]]
               /\ instances' =
                     With(instances, machine_id,
                          MachineInstance(locals.machine, ended.driver))
               /\ sampling_task' =
                     [sampling_task EXCEPT ![machine_id] = "running"]
               /\ sleep_until' =
                     [sleep_until EXCEPT ![machine_id] = MonotonicMs]
               /\ call' = outcome("none", TRUE)
    /\ UNCHANGED <<sim, fanout, modbus, now, ws_open, handler>>

(***************************************************************************)
(* MachineManager._sampling_loop: one iteration of the while loop, up to   *)
(* and including the sleep that ends it.                                   *)
(***************************************************************************)
\* the test that ends the loop after a connection error
LoopStops(consecutive_errors) ==
    consecutive_errors >= _MAX_CONSECUTIVE_ERRORS

ErrorsAfterSample_Kept(consecutive_errors) == consecutive_errors

\* "Reset error counter on success"
ErrorsAfterSample(consecutive_errors) == 0

_sampling_loop(machine_id, transport, extra_fault, reading, dead) ==
    /\ machine_id \in DOMAIN instances
    /\ sampling_task[machine_id] = "running"
    /\ MonotonicMs >= sleep_until[machine_id]
    /\ dead \subseteq instances[machine_id].subscribers
    /\ LET instance == instances[machine_id]
           interval_ms == instance.machine.sampling_interval_ms
           r1 == read_temperatures(instance.driver, transport)
           r2 == IF r1.raised = "none"
                 THEN read_extra_channels(r1.driver,
                                          instance.machine.extra_channels,
                                          extra_fault)
                 ELSE r1
           elapsed_ms == MonotonicMs - instance.start_time_ms
           temp_msg ==
               [type |-> "temperature",
                timestamp_ms |-> elapsed_ms,
                et |-> reading.et,
                bt |-> reading.bt,
                et_ror |-> _compute_ror(reading.et, instance.prev_et, interval_ms),
                bt_ror |-> _compute_ror(reading.bt, instance.prev_bt, interval_ms)]
           errors == instance.consecutive_errors + 1
           result(outcome, frame) ==
               [op |-> "_sampling_loop", machine_id |-> machine_id,
                transport |-> transport, extra_fault |-> extra_fault,
                raised |-> r2.raised, outcome |-> outcome, frame |-> frame,
                sent_to |-> IF frame = NoValue THEN {}
                            ELSE instance.subscribers \ dead,
                failed |-> dead]
       IN CASE r2.raised = "none" ->
                /\ instances' = [instances EXCEPT ![machine_id] =
                      [instance EXCEPT
                          !.driver = r2.driver,
                          !.prev_et = <<reading.et>>,
                          !.prev_bt = <<reading.bt>>,
                          !.session = add_reading(instance.session, elapsed_ms,
                                                  reading.et, reading.bt),
                          !.ring_buffer = RingAppend(instance.ring_buffer, temp_msg),
                          !.subscribers = _broadcast(instance.subscribers, dead),
                          !.consecutive_errors =
                              ErrorsAfterSample(instance.consecutive_errors)]]
                /\ sleep_until' = [sleep_until EXCEPT ![machine_id] =
                                      MonotonicMs + interval_ms]
                /\ call' = result("sample", temp_msg)
                /\ UNCHANGED <<sim, connects, fanout, modbus, sampling_task, now, ws_open, handler>>
            [] r2.raised = "ConnectionError" /\ LoopStops(errors) ->
                /\ instances' = [instances EXCEPT ![machine_id] =
                      [instance EXCEPT
                          !.driver = r2.driver,
                          !.subscribers = _broadcast(instance.subscribers, dead),
                          !.consecutive_errors = errors]]
                /\ sampling_task' = [sampling_task EXCEPT ![machine_id] = "done"]
                /\ call' = result("lost_connection",
                                  ConnectionMessage("error",
                                      DriverName(instance.machine)))
                /\ UNCHANGED <<sim, connects, fanout, modbus, sleep_until, now, ws_open, handler>>
            [] r2.raised = "ConnectionError" /\ ~LoopStops(errors) ->
                /\ instances' = [instances EXCEPT ![machine_id] =
                      [instance EXCEPT
                          !.driver = r2.driver,
                          !.subscribers = _broadcast(instance.subscribers, dead),
                          !.consecutive_errors = errors]]
                /\ sleep_until' = [sleep_until EXCEPT ![machine_id] =
                                      MonotonicMs + interval_ms]
                /\ call' = result("read_failed",
                                  [type |-> "error", code |-> "DRIVER_READ_FAILED",
                                   recoverable |-> TRUE])
                /\ UNCHANGED <<sim, connects, fanout, modbus, sampling_task, now, ws_open, handler>>
            [] OTHER ->
                /\ dead = {}
                /\ instances' = [instances EXCEPT ![machine_id] =
                      [instance EXCEPT !.driver = r2.driver]]
                /\ sampling_task' = [sampling_task EXCEPT ![machine_id] = "done"]
                /\ call' = result("unexpected", NoValue)
                /\ UNCHANGED <<sim, connects, fanout, modbus, sleep_until, now, ws_open, handler>>

(***************************************************************************)
(* An iteration of the sampling loop with its suspension points in         *)
(* _broadcast (lines 412-425).  `for ws in instance.subscribers` iterates   *)
(* the set itself and awaits send_json inside.  fanout[m] holds, while the  *)
(* loop of m is suspended in a send: the frame, the set as it was when the  *)
(* iterator was made (members) and its size, the observers the iterator    *)
(* has yielded (visited), the one being sent to (current) and the local    *)
(* list dead.  A set iterator raises RuntimeError from next() when the      *)
(* size of the set is not the size it started with; when the size is the    *)
(* same but the members are not, what it yields next is any member not      *)
(* yet yielded, or nothing.                                                 *)
(***************************************************************************)
NoFanout == [m \in MachineIds |-> NoValue]

\* lines 339-373 and the first next() of the iterator: a sample is read,
\* stored and the first send_json is entered
_sampling_loop_begin(machine_id, reading, first) ==
    /\ machine_id \in DOMAIN instances
    /\ sampling_task[machine_id] = "running"
    /\ fanout[machine_id] = NoValue
    /\ MonotonicMs >= sleep_until[machine_id]
    /\ LET instance == instances[machine_id]
           interval_ms == instance.machine.sampling_interval_ms
           elapsed_ms == MonotonicMs - instance.start_time_ms
           temp_msg ==
               [type |-> "temperature",
                timestamp_ms |-> elapsed_ms,
                et |-> reading.et,
                bt |-> reading.bt,
                et_ror |-> _compute_ror(reading.et, instance.prev_et, interval_ms),
                bt_ror |-> _compute_ror(reading.bt, instance.prev_bt, interval_ms)]
           sampled ==
               [instance EXCEPT
                   !.prev_et = <<reading.et>>,
                   !.prev_bt = <<reading.bt>>,
                   !.session = add_reading(instance.session, elapsed_ms,
                                           reading.et, reading.bt),
                   !.ring_buffer = RingAppend(instance.ring_buffer, temp_msg)]
       IN /\ read_temperatures(instance.driver, "ok").raised = "none"
          /\ IF instance.subscribers = {}
             THEN /\ first = None
                  /\ instances' = [instances EXCEPT ![machine_id] =
                         [sampled EXCEPT !.consecutive_errors =
                             ErrorsAfterSample(instance.consecutive_errors)]]
                  /\ sleep_until' = [sleep_until EXCEPT ![machine_id] =
                                        MonotonicMs + interval_ms]
                  /\ UNCHANGED fanout
             ELSE /\ first \in instance.subscribers
                  /\ instances' = [instances EXCEPT ![machine_id] = sampled]
                  /\ fanout' = [fanout EXCEPT ![machine_id] =
                         <<[frame |-> temp_msg,
                            members |-> instance.subscribers,
                            size |-> Cardinality(instance.subscribers),
                            visited |-> {first},
                            current |-> first,
                            dead |-> {}]>>]
                  /\ UNCHANGED sleep_until
          /\ call' = [op |-> "_sampling_loop_begin", machine_id |-> machine_id,
                      frame |-> temp_msg, current |-> first]
    /\ UNCHANGED <<sim, connects, modbus, sampling_task, now, ws_open, handler>>

\* the observers the set iterator may yield next
NextObservers_Any(subscribers, visited) == subscribers

\* a set iterator yields a member once
NextObservers(subscribers, visited) == subscribers \ visited

\* _broadcast, lines 418-425: the send_json the loop is suspended in ends
\* (send_ok: it returned), and the iterator is asked for the next observer.
\* next_ws is what it yields, None when the iteration is over.
_broadcast_step(machine_id, send_ok, next_ws) ==
    /\ machine_id \in DOMAIN instances
    /\ fanout[machine_id] # NoValue
    /\ LET instance == instances[machine_id]
           f == fanout[machine_id][1]
           subs == instance.subscribers
           dead == IF send_ok THEN f.dead ELSE f.dead \cup {f.current}
           result(outcome, raised) ==
               [op |-> "_broadcast", machine_id |-> machine_id,
                frame |-> f.frame, ws |-> f.current, send_ok |-> send_ok,
                members |-> f.members, delivered |-> f.visited \ dead,
                outcome |-> outcome, raised |-> raised]
       IN CASE Cardinality(subs) # f.size ->
                \* RuntimeError: Set changed size during iteration; it
                \* leaves _broadcast and the loop's `except Exception`
                \* returns
                /\ next_ws = None
                /\ sampling_task' = [sampling_task EXCEPT ![machine_id] = "done"]
                /\ fanout' = [fanout EXCEPT ![machine_id] = NoValue]
                /\ call' = result("unexpected", "RuntimeError")
                /\ UNCHANGED <<instances, sleep_until>>
            [] Cardinality(subs) = f.size /\ next_ws = None ->
                /\ (NextObservers(subs, f.visited) = {}) \/ (subs # f.members)
                /\ instances' = [instances EXCEPT ![machine_id] =
                       [instance EXCEPT
                           !.subscribers = _broadcast(subs, dead),
                           !.consecutive_errors =
                               ErrorsAfterSample(instance.consecutive_errors)]]
                /\ sleep_until' = [sleep_until EXCEPT ![machine_id] =
                       MonotonicMs + instance.machine.sampling_interval_ms]
                /\ fanout' = [fanout EXCEPT ![machine_id] = NoValue]
                /\ call' = result("sample", "none")
                /\ UNCHANGED sampling_task
            [] OTHER ->
                /\ next_ws \in NextObservers(subs, f.visited)
                /\ fanout' = [fanout EXCEPT ![machine_id] =
                       <<[f EXCEPT !.visited = @ \cup {next_ws},
                                   !.current = next_ws,
                                   !.dead = dead]>>]
                /\ call' = result("sending", "none")
                /\ UNCHANGED <<instances, sampling_task, sleep_until>>
    /\ UNCHANGED <<sim, connects, modbus, now, ws_open, handler>>

\* the monotonic clock advances
Tick(max_ticks) ==
    /\ now < max_ticks
    /\ now' = now + 1
    /\ call' = [op |-> "tick"]
    /\ UNCHANGED <<sim, connects, fanout, modbus, instances, sampling_task, sleep_until, ws_open, handler>>

ResetSession_KeepData(instance) ==
    [instance.session EXCEPT !.state = "idle"]

\* handle_session_command, line 283: the session a reset installs
ResetSession(instance) == RoastSession(instance.machine.name)

(***************************************************************************)
(* MachineManager.handle_session_command: the instance map afterwards and  *)
(* the frame returned.                                                     *)
(***************************************************************************)
handle_session_command(insts, machine_id, action, event_type) ==
    IF machine_id \notin DOMAIN insts
    THEN [instances |-> insts,
          reply |-> ErrorMessage("MACHINE_NOT_FOUND", FALSE)]
    ELSE
    LET instance == insts[machine_id]
        session == instance.session
        prev_state == session.state
        elapsed_ms == MonotonicMs - instance.start_time_ms
        \* except ValueError, lines 290-296; the session object is the one
        \* the raising method was called on
        invalid_transition(r) ==
            [instances |-> [insts EXCEPT ![machine_id].session = r.session],
             reply |-> ErrorMessage("INVALID_STATE_TRANSITION", TRUE)]
        moved(r, inst) ==
            IF r.raised # "none"
            THEN invalid_transition(r)
            ELSE [instances |-> [insts EXCEPT ![machine_id] = inst],
                  reply |-> StateMessage(r.session.state, prev_state)]
    IN CASE action = "start_monitoring" ->
              LET r == start_monitoring(session)
              IN moved(r, [instance EXCEPT !.session = r.session,
                                           !.start_time_ms = MonotonicMs,
                                           !.prev_et = NoValue,
                                           !.prev_bt = NoValue])
         [] action = "stop_monitoring" ->
              LET r == stop_monitoring(session)
              IN moved(r, [instance EXCEPT !.session = r.session])
         [] action = "start_recording" ->
              LET r == start_recording(session)
              IN moved(r, [instance EXCEPT !.session = r.session,
                                           !.start_time_ms = MonotonicMs,
                                           !.prev_et = NoValue,
                                           !.prev_bt = NoValue])
         [] action = "stop_recording" ->
              LET r == stop_recording(session)
              IN moved(r, [instance EXCEPT !.session = r.session])
         [] action = "mark_event" ->
              IF event_type = None
              THEN [instances |-> insts,
                    reply |-> ErrorMessage("INVALID_MESSAGE", TRUE)]
              ELSE LET r == add_event(session, event_type, elapsed_ms)
                   IN IF r.raised # "none"
                      THEN invalid_transition(r)
                      ELSE [instances |-> [insts EXCEPT ![machine_id] =
                                [instance EXCEPT !.session = r.session]],
                            reply |-> StateMessage(prev_state, prev_state)]
         [] action = "reset" ->
              [instances |-> [insts EXCEPT ![machine_id] =
                    [instance EXCEPT
                        !.session = ResetSession(instance),
                        !.start_time_ms = MonotonicMs]],
               reply |-> StateMessage("idle", prev_state)]
         [] OTHER ->
              [instances |-> insts,
               reply |-> ErrorMessage("INVALID_MESSAGE", TRUE)]

\* a call of MachineManager.handle_session_command
SessionCommand(machine_id, action, event_type) ==
    LET r == handle_session_command(instances, machine_id, action, event_type)
    IN /\ (action = "mark_event" /\ machine_id \in DOMAIN instances)
              => Len(instances[machine_id].session.events) < MaxEvents
       /\ instances' = r.instances
       /\ call' = [op |-> "handle_session_command", machine_id |-> machine_id,
                   action |-> action, event_type |-> event_type,
                   reply |-> r.reply]
       /\ UNCHANGED <<sim, connects, fanout, modbus, sampling_task, sleep_until, now, ws_open, handler>>

(***************************************************************************)
(* MachineManager.handle_control: the instance map afterwards, the         *)
(* exception that leaves the method, the acknowledgment returned and the   *)
(* call made to driver.write_control.                                      *)
(***************************************************************************)
handle_control(insts, machine_id, channel, value_normalized, enabled, fail_at) ==
    LET ack(applied, message) ==
            ControlAckMessage(channel, value_normalized, applied, enabled, message)
    IN
    IF machine_id \notin DOMAIN insts
    THEN [instances |-> insts, raised |-> "none",
          ack |-> ack(FALSE, "Machine not connected"), driver_call |-> NoValue]
    ELSE
    LET instance == insts[machine_id]
        control == _find_control(instance.machine, channel)
    IN
    IF control = NoValue
    THEN [instances |-> insts, raised |-> "none",
          ack |-> ack(FALSE, "Unknown control channel"), driver_call |-> NoValue]
    ELSE
    LET write_value == IF enabled THEN value_normalized ELSE 0
        native_value == _scale_to_native(control, write_value)
        w == write_control(instance.driver, instance.machine.controls,
                           channel, native_value, fail_at)
        elapsed_ms == MonotonicMs - instance.start_time_ms
        written == [instance EXCEPT
                       !.control_enabled = With(@, channel, enabled),
                       !.driver = w.driver]
        driver_call == [channel |-> channel, value |-> native_value,
                        raised |-> w.raised, writes |-> w.writes]
    IN CASE w.raised = "none" ->
              [instances |-> [insts EXCEPT ![machine_id] =
                    [written EXCEPT !.session =
                        add_control_change(instance.session, elapsed_ms,
                                           channel, native_value)]],
               raised |-> "none", ack |-> ack(TRUE, ""),
               driver_call |-> driver_call]
         [] w.raised \in {"ConnectionError", "NotImplementedError"} ->
              [instances |-> [insts EXCEPT ![machine_id] = written],
               raised |-> "none", ack |-> ack(FALSE, w.raised),
               driver_call |-> driver_call]
         [] OTHER ->
              [instances |-> [insts EXCEPT ![machine_id] = written],
               raised |-> w.raised, ack |-> NoValue,
               driver_call |-> driver_call]

\* a call of MachineManager.handle_control
ControlLogLen(insts, machine_id, channel) ==
    IF machine_id \in DOMAIN insts
       /\ channel \in DOMAIN insts[machine_id].session.controls
    THEN Len(insts[machine_id].session.controls[channel])
    ELSE 0

Control(machine_id, channel, value_normalized, enabled, fail_at) ==
    LET r == handle_control(instances, machine_id, channel,
                            value_normalized, enabled, fail_at)
    IN /\ ControlLogLen(instances, machine_id, channel) < MaxControlLog
       /\ instances' = r.instances
       /\ call' = [op |-> "handle_control", machine_id |-> machine_id,
                   channel |-> channel, value |-> value_normalized,
                   enabled |-> enabled, raised |-> r.raised, ack |-> r.ack,
                   driver_call |-> r.driver_call]
       /\ UNCHANGED <<sim, connects, fanout, modbus, sampling_task, sleep_until, now, ws_open, handler>>

(***************************************************************************)
(* MachineManager.subscribe / unsubscribe.                                 *)
(***************************************************************************)
subscribe(insts, machine_id, ws) ==
    IF machine_id \in DOMAIN insts
    THEN [insts EXCEPT ![machine_id].subscribers = @ \cup {ws}]
    ELSE insts

unsubscribe(insts, machine_id, ws) ==
    IF machine_id \in DOMAIN insts
    THEN [insts EXCEPT ![machine_id].subscribers = @ \ {ws}]
    ELSE insts

(***************************************************************************)
(* MachineManager.get_sync_messages.                                       *)
(***************************************************************************)
get_sync_messages(insts, machine_id, since_ms) ==
    IF machine_id \notin DOMAIN insts
    THEN << >>
    ELSE SelectSeq(insts[machine_id].ring_buffer,
                   LAMBDA msg : msg.timestamp_ms > since_ms)

(***************************************************************************)
(* The live endpoint (ws/live.py).  handler[ws] is the point at which the  *)
(* live_data coroutine serving ws is suspended:                            *)
(*   "closed"           no coroutine                                       *)
(*   "sent_error"       in send_json of the MACHINE_NOT_FOUND frame        *)
(*   "sent_connection"  in send_json of the connection frame               *)
(*   "sent_state"       in send_json of the state frame                    *)
(*   "receiving"        in receive_json                                    *)
(*   "replay"           in a send_json of the sync replay; pending holds   *)
(*                      the frames of the replay not yet sent              *)
(***************************************************************************)
HandlerAt(pc) == [pc |-> pc, pending |-> << >>]

\* the code of websocket.close() for a machine without instance
NOT_FOUND_CLOSE_CODE == 4004

\* live_data from accept to the registration with the manager, run without
\* another coroutine in between
live_data(ws, machine_id) ==
    /\ ws_open[ws] = None
    /\ handler[ws].pc = "closed"
    /\ IF machine_id \notin DOMAIN instances
       THEN /\ call' = [op |-> "live_data", ws |-> ws, machine_id |-> machine_id,
                        frames |-> <<ErrorMessage("MACHINE_NOT_FOUND", FALSE)>>,
                        close_code |-> NOT_FOUND_CLOSE_CODE]
            /\ UNCHANGED <<sim, connects, fanout, modbus, instances, sampling_task, sleep_until, now, ws_open, handler>>
       ELSE /\ instances' = subscribe(instances, machine_id, ws)
            /\ ws_open' = [ws_open EXCEPT ![ws] = machine_id]
            /\ handler' = [handler EXCEPT ![ws] = HandlerAt("receiving")]
            /\ call' = [op |-> "live_data", ws |-> ws, machine_id |-> machine_id,
                        frames |-> <<ConnectionMessage("connected",
                                         DriverName(instances[machine_id].machine)),
                                     StateMessage(instances[machine_id].session.state,
                                                  instances[machine_id].session.state)>>,
                        close_code |-> 0]
            /\ UNCHANGED <<sim, connects, fanout, modbus, sampling_task, sleep_until, now>>

\* live_data, lines 61-82: accept, look the instance up and send the first
\* frame
live_data_accept(ws, machine_id) ==
    /\ ws_open[ws] = None
    /\ handler[ws].pc = "closed"
    /\ ws_open' = [ws_open EXCEPT ![ws] = machine_id]
    /\ IF machine_id \notin DOMAIN instances
       THEN /\ handler' = [handler EXCEPT ![ws] = HandlerAt("sent_error")]
            /\ call' = [op |-> "live_data_accept", ws |-> ws,
                        machine_id |-> machine_id,
                        frame |-> ErrorMessage("MACHINE_NOT_FOUND", FALSE),
                        sent_to |-> {ws}, close_code |-> 0]
       ELSE /\ handler' = [handler EXCEPT ![ws] = HandlerAt("sent_connection")]
            /\ call' = [op |-> "live_data_accept", ws |-> ws,
                        machine_id |-> machine_id,
                        frame |-> ConnectionMessage("connected",
                                      DriverName(instances[machine_id].machine)),
                        sent_to |-> {ws}, close_code |-> 0]
    /\ UNCHANGED <<sim, connects, fanout, modbus, instances, sampling_task, sleep_until, now>>

live_data_close_Normal(ws) ==
    /\ handler[ws].pc = "sent_error"
    /\ ws_open' = [ws_open EXCEPT ![ws] = None]
    /\ handler' = [handler EXCEPT ![ws] = HandlerAt("closed")]
    /\ call' = [op |-> "live_data_close", ws |-> ws, machine_id |-> ws_open[ws],
                frame |-> NoValue, sent_to |-> {}, close_code |-> 1000]
    /\ UNCHANGED <<sim, connects, fanout, modbus, instances, sampling_task, sleep_until, now>>

\* live_data, lines 73-74: close and return
live_data_close(ws) ==
    /\ handler[ws].pc = "sent_error"
    /\ ws_open' = [ws_open EXCEPT ![ws] = None]
    /\ handler' = [handler EXCEPT ![ws] = HandlerAt("closed")]
    /\ call' = [op |-> "live_data_close", ws |-> ws, machine_id |-> ws_open[ws],
                frame |-> NoValue, sent_to |-> {},
                close_code |-> NOT_FOUND_CLOSE_CODE]
    /\ UNCHANGED <<sim, connects, fanout, modbus, instances, sampling_task, sleep_until, now>>

live_data_state_Registered(ws) ==
    /\ handler[ws].pc = "sent_connection"
    /\ ws_open[ws] \in DOMAIN instances
    /\ LET state == instances[ws_open[ws]].session.state
       IN call' = [op |-> "live_data_state", ws |-> ws,
                   machine_id |-> ws_open[ws],
                   frame |-> StateMessage(state, state),
                   sent_to |-> {ws}, close_code |-> 0]
    /\ handler' = [handler EXCEPT ![ws] = HandlerAt("sent_state")]
    /\ instances' = subscribe(instances, ws_open[ws], ws)
    /\ UNCHANGED <<sim, connects, fanout, modbus, sampling_task, sleep_until, now, ws_open>>

\* live_data, lines 84-91: the state frame is built from the session of the
\* instance looked up at accept, as it is once the connection frame is sent
live_data_state(ws) ==
    /\ handler[ws].pc = "sent_connection"
    /\ ws_open[ws] \in DOMAIN instances
    /\ LET state == instances[ws_open[ws]].session.state
       IN call' = [op |-> "live_data_state", ws |-> ws,
                   machine_id |-> ws_open[ws],
                   frame |-> StateMessage(state, state),
                   sent_to |-> {ws}, close_code |-> 0]
    /\ handler' = [handler EXCEPT ![ws] = HandlerAt("sent_state")]
    /\ UNCHANGED <<sim, connects, fanout, modbus, instances, sampling_task, sleep_until, now, ws_open>>

\* live_data, lines 93-94: register with the manager and wait for a frame
live_data_subscribe(ws) ==
    /\ handler[ws].pc = "sent_state"
    /\ instances' = subscribe(instances, ws_open[ws], ws)
    /\ handler' = [handler EXCEPT ![ws] = HandlerAt("receiving")]
    /\ call' = [op |-> "live_data_subscribe", ws |-> ws,
                machine_id |-> ws_open[ws],
                frame |-> NoValue, sent_to |-> {}, close_code |-> 0]
    /\ UNCHANGED <<sim, connects, fanout, modbus, sampling_task, sleep_until, now, ws_open>>

\* live_data when receive_json raises WebSocketDisconnect or a send_json of
\* the replay raises: the finally clause
live_disconnect(ws) ==
    /\ ws_open[ws] # None
    /\ handler[ws].pc \in {"receiving", "replay"}
    /\ instances' = unsubscribe(instances, ws_open[ws], ws)
    /\ ws_open' = [ws_open EXCEPT ![ws] = None]
    /\ handler' = [handler EXCEPT ![ws] = HandlerAt("closed")]
    /\ call' = [op |-> "live_disconnect", ws |-> ws]
    /\ UNCHANGED <<sim, connects, fanout, modbus, sampling_task, sleep_until, now>>

\* A value of an inbound JSON object: a number ([kind |-> "number",
\* n |-> x]), a string that float() parses to x ([kind |-> "numeric_text",
\* n |-> x]), a string that float() rejects ("text"), null ("null") or a
\* missing key ("absent").

\* dict.get(key, default)
Get(v, default) ==
    IF v.kind = "absent" THEN [kind |-> "number", n |-> default] ELSE v

\* float(v): the exception raised, "none" when it returns v.n
float_raises(v) ==
    CASE v.kind = "text" -> "ValueError"
      [] v.kind = "null" -> "TypeError"
      [] OTHER -> "none"

\* An inbound control frame: data["channel"], data["value"] (in tenths) and
\* data["enabled"], which is "true", "false" or "absent".
ControlFrame(channel, value, enabled) ==
    [type |-> "control", channel |-> channel, value |-> value,
     enabled |-> enabled]

\* An inbound command frame: data["action"], data["event_type"] and
\* data["last_timestamp_ms"] (in milliseconds).
CommandFrame(action, event_type, last_timestamp_ms) ==
    [type |-> "command", action |-> action, event_type |-> event_type,
     last_timestamp_ms |-> last_timestamp_ms]

\* An inbound JSON object of another type, and an inbound JSON value that is
\* not an object (it has no get method).
OtherFrame(type) == [type |-> type]
ArrayFrame == [json |-> "array"]

\* the enabled argument _handle_control passes to handle_control: none, so
\* the parameter's default applies
EnabledOfFrame(data) == TRUE

HandlerEnds_StaysSubscribed(insts, ws) ==
    /\ instances' = insts
    /\ ws_open' = [ws_open EXCEPT ![ws] = None]
    /\ handler' = [handler EXCEPT ![ws] = HandlerAt("closed")]
    /\ UNCHANGED <<sim, connects, fanout, modbus, sampling_task, sleep_until, now>>

\* the handler ends on an exception: it is logged and the finally clause
\* unsubscribes
HandlerEnds(insts, ws) ==
    /\ instances' = unsubscribe(insts, ws_open[ws], ws)
    /\ ws_open' = [ws_open EXCEPT ![ws] = None]
    /\ handler' = [handler EXCEPT ![ws] = HandlerAt("closed")]
    /\ UNCHANGED <<sim, connects, fanout, modbus, sampling_task, sleep_until, now>>

\* live._handle_control, called by live_data for a frame of type "control"
_handle_control(ws, data, fail_at) ==
    /\ ws_open[ws] # None
    /\ handler[ws].pc = "receiving"
    /\ ControlLogLen(instances, ws_open[ws], data.channel) < MaxControlLog
    /\ LET machine_id == ws_open[ws]
           given == Get(data.value, 0)
           invalid ==
               /\ call' = [op |-> "_handle_control", ws |-> ws, data |-> data,
                           reply |-> ErrorMessage("INVALID_MESSAGE", TRUE),
                           passed |-> NoValue, raised |-> "none",
                           sent_to |-> {}]
               /\ UNCHANGED <<sim, connects, fanout, modbus, instances, sampling_task, sleep_until, now, ws_open, handler>>
       IN IF float_raises(given) # "none"
          THEN invalid
          ELSE LET value == given.n
               IN IF ~(0 <= value /\ value <= 10)
                  THEN invalid
                  ELSE LET enabled == EnabledOfFrame(data)
                           r == handle_control(instances, machine_id, data.channel,
                                               value, enabled, fail_at)
                           passed == [machine_id |-> machine_id,
                                      channel |-> data.channel,
                                      value |-> value, enabled |-> enabled,
                                      driver_call |-> r.driver_call]
                       IN IF r.raised = "none"
                          THEN /\ instances' = r.instances
                               /\ call' = [op |-> "_handle_control", ws |-> ws,
                                           data |-> data, reply |-> r.ack,
                                           passed |-> passed, raised |-> "none",
                                           sent_to |-> {}]
                               /\ UNCHANGED <<sim, connects, fanout, modbus, sampling_task, sleep_until, now, ws_open, handler>>
                          ELSE /\ HandlerEnds(r.instances, ws)
                               /\ call' = [op |-> "_handle_control", ws |-> ws,
                                           data |-> data, reply |-> NoValue,
                                           passed |-> passed, raised |-> r.raised,
                                           sent_to |-> {}]

\* the since_ms argument _handle_command passes to get_sync_messages for a
\* sync frame: float(data.get("last_timestamp_ms", 0.0)), 0.0 when float()
\* raises
SinceOf(data) ==
    LET given == Get(data.last_timestamp_ms, 0)
    IN IF float_raises(given) # "none" THEN 0 ELSE given.n

ReplayRecipients_All(insts, machine_id, ws) ==
    IF machine_id \in DOMAIN insts
    THEN insts[machine_id].subscribers \cup {ws} ELSE {ws}

\* the observers a frame of the sync replay is sent to
ReplayRecipients(insts, machine_id, ws) == {ws}

OtherSubscribers_All(subscribers, ws) == subscribers

\* live._handle_command, lines 190-191: the subscribers a state frame is
\* passed on to, every one but the caller (which gets it as its reply)
OtherSubscribers(subscribers, ws) == subscribers \ {ws}

\* live._handle_command, called by live_data for a frame of type "command";
\* dead: the other subscribers whose send_json raises when the state frame
\* is passed on to them.  reply is the frame sent to ws, sent_to the other
\* observers the frame was delivered to, failed those whose send raised.
\* A sync command leaves the frames to replay in replay; they are sent one
\* by one by _handle_command_replay.
_handle_command(ws, data, dead) ==
    /\ ws_open[ws] # None
    /\ handler[ws].pc = "receiving"
    /\ LET machine_id == ws_open[ws]
           result(reply, passed, sent_to, replay) ==
               [op |-> "_handle_command", ws |-> ws, data |-> data,
                reply |-> reply, passed |-> passed, raised |-> "none",
                sent_to |-> sent_to, failed |-> dead, replay |-> replay]
       IN IF data.action \notin CommandActions
          THEN /\ dead = {}
               /\ call' = result(ErrorMessage("INVALID_MESSAGE", TRUE),
                                 NoValue, {}, << >>)
               /\ UNCHANGED <<sim, connects, fanout, modbus, instances, sampling_task, sleep_until, now, ws_open, handler>>
          ELSE IF data.action = "sync"
          THEN LET last_ts == SinceOf(data)
                   messages == get_sync_messages(instances, machine_id, last_ts)
               IN /\ dead = {}
                  /\ handler' = [handler EXCEPT ![ws] =
                        IF messages = << >>
                        THEN HandlerAt("receiving")
                        ELSE [pc |-> "replay", pending |-> messages]]
                  /\ call' = result(NoValue, NoValue, {}, messages)
                  /\ UNCHANGED <<sim, connects, fanout, modbus, instances, sampling_task, sleep_until, now, ws_open>>
          ELSE LET r == handle_session_command(instances, machine_id,
                                               data.action, data.event_type)
                   others == IF r.reply.type = "state"
                                /\ machine_id \in DOMAIN r.instances
                             THEN OtherSubscribers(
                                      r.instances[machine_id].subscribers, ws)
                             ELSE {}
               IN /\ dead \subseteq others
                  /\ (data.action = "mark_event"
                        /\ machine_id \in DOMAIN instances)
                        => Len(instances[machine_id].session.events) < MaxEvents
                  /\ instances' =
                        IF dead = {} THEN r.instances
                        ELSE [r.instances EXCEPT
                                 ![machine_id].subscribers = @ \ dead]
                  /\ call' = result(r.reply,
                                    [machine_id |-> machine_id,
                                     action |-> data.action,
                                     event_type |-> data.event_type],
                                    others \ dead, << >>)
                  /\ UNCHANGED <<sim, connects, fanout, modbus, sampling_task, sleep_until, now, ws_open, handler>>

\* live._handle_command, lines 179-180: one send_json of the replay loop
_handle_command_replay(ws) ==
    /\ handler[ws].pc = "replay"
    /\ LET pending == Tail(handler[ws].pending)
       IN handler' = [handler EXCEPT ![ws] =
             IF pending = << >>
             THEN HandlerAt("receiving")
             ELSE [pc |-> "replay", pending |-> pending]]
    /\ call' = [op |-> "_handle_command_replay", ws |-> ws,
                frame |-> Head(handler[ws].pending),
                sent_to |-> ReplayRecipients(instances, ws_open[ws], ws)]
    /\ UNCHANGED <<sim, connects, fanout, modbus, instances, sampling_task, sleep_until, now, ws_open>>

\* live_data, lines 96-116: one frame received in the loop.  A frame that
\* is not a JSON object has no get method: the AttributeError ends the
\* handler.
live_data_receive(ws, data, fail_at, dead) ==
    IF data = ArrayFrame
    THEN /\ ws_open[ws] # None
         /\ handler[ws].pc = "receiving"
         /\ fail_at = 0 /\ dead = {}
         /\ HandlerEnds(instances, ws)
         /\ call' = [op |-> "live_data_receive", ws |-> ws, data |-> data,
                     reply |-> NoValue, passed |-> NoValue,
                     raised |-> "AttributeError", sent_to |-> {}]
    ELSE CASE data.type = "control" ->
                /\ dead = {}
                /\ _handle_control(ws, data, fail_at)
           [] data.type = "command" ->
                /\ fail_at = 0
                /\ _handle_command(ws, data, dead)
           [] OTHER ->
                /\ ws_open[ws] # None
                /\ handler[ws].pc = "receiving"
                /\ fail_at = 0 /\ dead = {}
                /\ call' = [op |-> "live_data_receive", ws |-> ws, data |-> data,
                            reply |-> ErrorMessage("INVALID_MESSAGE", TRUE),
                            passed |-> NoValue, raised |-> "none",
                            sent_to |-> {}]
                /\ UNCHANGED <<sim, connects, fanout, modbus, instances, sampling_task, sleep_until, now, ws_open, handler>>

(***************************************************************************)
(* A ModbusDriver called directly, as the driver's unit tests do.  connect *)
(* is suspended once, in the handshake of the client it created; the other *)
(* methods run in one step.                                                *)
(***************************************************************************)
DriverUnchanged ==
    UNCHANGED <<instances, sampling_task, sleep_until, now, ws_open, handler,
                sim, connects, fanout>>

\* await driver.connect(), up to the handshake
driver_connect ==
    /\ modbus.pc = "idle"
    /\ LET begun == connect_begin(modbus.driver)
       IN /\ modbus' = [driver |-> begun.driver,
                        pc |-> IF begun.returned THEN "idle" ELSE "handshake"]
          /\ call' = [op |-> "connect", returned |-> begun.returned,
                      handshake |-> None, raised |-> "none",
                      opened |-> begun.opened]
    /\ DriverUnchanged

\* the handshake of the pending connect() ends
driver_connect_done(handshake) ==
    /\ modbus.pc = "handshake"
    /\ LET ended == connect_end(modbus.driver, handshake)
       IN /\ modbus' = [driver |-> ended.driver, pc |-> "idle"]
          /\ call' = [op |-> "connect", returned |-> TRUE,
                      handshake |-> handshake, raised |-> ended.raised,
                      opened |-> 0]
    /\ DriverUnchanged

\* ModbusDriver.connect cancelled in `await self._client.connect()`:
\* CancelledError is raised at the await; it is a BaseException, so the
\* `except Exception` of line 104 does not handle it and the state and the
\* client assigned before the await stay
connect_cancelled(driver) ==
    [raised |-> "CancelledError", driver |-> driver]

\* the task awaiting driver.connect() is cancelled during the handshake
driver_connect_cancelled ==
    /\ modbus.pc = "handshake"
    /\ LET ended == connect_cancelled(modbus.driver)
       IN /\ modbus' = [driver |-> ended.driver, pc |-> "idle"]
          /\ call' = [op |-> "connect_cancelled", raised |-> ended.raised]
    /\ DriverUnchanged

\* await driver.disconnect()
driver_disconnect(close_ok) ==
    /\ LET closed == disconnect(modbus.driver, close_ok)
       IN /\ modbus' = [modbus EXCEPT !.driver = closed.driver]
          /\ call' = [op |-> "disconnect", raised |-> closed.raised]
    /\ DriverUnchanged

\* await driver.read_temperatures()
driver_read_temperatures(transport) ==
    /\ LET r == read_temperatures(modbus.driver, transport)
       IN /\ modbus' = [modbus EXCEPT !.driver = r.driver]
          /\ call' = [op |-> "read_temperatures", transport |-> transport,
                      raised |-> r.raised]
    /\ DriverUnchanged

\* await driver.write_control(channel, value); value in tenths
driver_write_control(channel, value, fail_at) ==
    /\ LET w == write_control(modbus.driver, Storage["m1"].controls,
                              channel, value, fail_at)
       IN /\ modbus' = [modbus EXCEPT !.driver = w.driver]
          /\ call' = [op |-> "write_control", channel |-> channel,
                      value |-> value, fail_at |-> fail_at,
                      raised |-> w.raised, writes |-> w.writes]
    /\ DriverUnchanged

(***************************************************************************)
(* SimulatorManager (simulator/manager.py).  instances and info map the    *)
(* machine ids the manager handed out to the server and the info record;   *)
(* saved is the set of SavedMachines in the storage; listening counts, per *)
(* catalog id, the servers that were started and not shut down; task is,   *)
(* per caller, the start, stop or stop_all it is suspended in.  Machine     *)
(* ids (uuids in the code) are numbered in the order they are created.      *)
(***************************************************************************)
SimIdle ==
    [pc |-> "idle", catalog_id |-> None, machine_id |-> 0, remaining |-> << >>]

\* SimulatorManager.__init__, with a storage
SimulatorManager ==
    [instances |-> [i \in {} |-> NoValue],
     info |-> [i \in {} |-> NoValue],
     saved |-> {},
     listening |-> [c \in CatalogIds |-> 0],
     next_id |-> 1,
     task |-> [c \in Callers |-> SimIdle]]

SimUnchanged ==
    UNCHANGED <<instances, sampling_task, sleep_until, now, ws_open, handler,
                modbus, connects, fanout>>

\* start, lines 77-80: a simulator of this catalog id is registered
DuplicateCheck(info, catalog_id) ==
    \E i \in DOMAIN info : info[i].catalog_id = catalog_id

\* start(model), up to await server.start() (lines 76-86)
sim_start(caller, catalog_id) ==
    /\ sim.task[caller].pc = "idle"
    /\ sim.next_id + Cardinality({c \in Callers : sim.task[c].pc = "start"})
          <= MaxSimStarts
    /\ IF DuplicateCheck(sim.info, catalog_id)
       THEN /\ call' = [op |-> "start", caller |-> caller,
                        catalog_id |-> catalog_id, raised |-> "ValueError",
                        machine_id |-> 0, suspended |-> FALSE]
            /\ UNCHANGED sim
       ELSE /\ sim' = [sim EXCEPT !.task[caller] =
                          [SimIdle EXCEPT !.pc = "start",
                                          !.catalog_id = catalog_id]]
            /\ call' = [op |-> "start", caller |-> caller,
                        catalog_id |-> catalog_id, raised |-> "none",
                        machine_id |-> 0, suspended |-> TRUE]
    /\ SimUnchanged

\* start(model) from its await on (lines 86-105); listen_ok: the server's
\* listen() returns
sim_start_done(caller, listen_ok) ==
    /\ sim.task[caller].pc = "start"
    /\ LET catalog_id == sim.task[caller].catalog_id
           machine_id == sim.next_id
       IN IF listen_ok
          THEN /\ sim' = [sim EXCEPT
                    !.task[caller] = SimIdle,
                    !.next_id = @ + 1,
                    !.saved = @ \cup {machine_id},
                    !.listening[catalog_id] = @ + 1,
                    !.instances = With(@, machine_id,
                                       [catalog_id |-> catalog_id]),
                    !.info = With(@, machine_id,
                                  [machine_id |-> machine_id,
                                   catalog_id |-> catalog_id])]
               /\ call' = [op |-> "start", caller |-> caller,
                           catalog_id |-> catalog_id, raised |-> "none",
                           machine_id |-> machine_id, suspended |-> FALSE]
          ELSE /\ sim' = [sim EXCEPT !.task[caller] = SimIdle]
               /\ call' = [op |-> "start", caller |-> caller,
                           catalog_id |-> catalog_id, raised |-> "OSError",
                           machine_id |-> 0, suspended |-> FALSE]
    /\ SimUnchanged

\* the ids of todo, in order, from the first one that is still in
\* instances: stop_all's loop runs through the KeyErrors of the others
RECURSIVE SkipStopped(_, _)
SkipStopped(todo, instances_now) ==
    IF todo = << >> THEN << >>
    ELSE IF Head(todo) \in DOMAIN instances_now THEN todo
    ELSE SkipStopped(Tail(todo), instances_now)

\* stop(machine_id) entered by caller (lines 116-121, up to await
\* server.stop()); remaining: the ids stop_all still has to stop afterwards
SimStopEnter(s, caller, machine_id, within, remaining) ==
    [s EXCEPT !.instances = Without(@, machine_id),
              !.task[caller] = [pc |-> within, catalog_id |-> None,
                                machine_id |-> machine_id,
                                remaining |-> remaining]]

\* stop(machine_id), up to await server.stop()
sim_stop(caller, machine_id) ==
    /\ sim.task[caller].pc = "idle"
    /\ IF machine_id \notin DOMAIN sim.instances
       THEN /\ call' = [op |-> "stop", caller |-> caller,
                        machine_id |-> machine_id, raised |-> "KeyError",
                        suspended |-> FALSE]
            /\ UNCHANGED sim
       ELSE /\ sim' = SimStopEnter(sim, caller, machine_id, "stop", << >>)
            /\ call' = [op |-> "stop", caller |-> caller,
                        machine_id |-> machine_id, raised |-> "none",
                        suspended |-> TRUE]
    /\ SimUnchanged

\* stop(machine_id) from its await on (lines 121-128); shutdown_ok: the
\* server's stop() returns
SimStopLeave(s, machine_id, catalog_id, shutdown_ok) ==
    IF shutdown_ok
    THEN [s EXCEPT !.info = Without(@, machine_id),
                   !.saved = @ \ {machine_id},
                   !.listening[catalog_id] = @ - 1]
    ELSE s

\* the await server.stop() of a stop(machine_id) or of an iteration of
\* stop_all ends; stop_all goes on with its next id
sim_stop_done(caller, shutdown_ok) ==
    /\ sim.task[caller].pc \in {"stop", "stop_all"}
    /\ LET task == sim.task[caller]
           machine_id == task.machine_id
           catalog_id == sim.info[machine_id].catalog_id
           left == SimStopLeave(sim, machine_id, catalog_id, shutdown_ok)
           todo == SkipStopped(task.remaining, left.instances)
       IN IF task.pc = "stop"
          THEN /\ sim' = [left EXCEPT !.task[caller] = SimIdle]
               /\ call' = [op |-> "stop", caller |-> caller,
                           machine_id |-> machine_id,
                           raised |-> IF shutdown_ok THEN "none"
                                      ELSE "Exception",
                           suspended |-> FALSE]
          ELSE IF todo = << >>
          THEN /\ sim' = [left EXCEPT !.task[caller] = SimIdle]
               /\ call' = [op |-> "stop_all", caller |-> caller,
                           machine_id |-> machine_id, raised |-> "none",
                           suspended |-> FALSE]
          ELSE /\ sim' = SimStopEnter(left, caller, Head(todo), "stop_all",
                                      Tail(todo))
               /\ call' = [op |-> "stop_all", caller |-> caller,
                           machine_id |-> machine_id, raised |-> "none",
                           suspended |-> TRUE]
    /\ SimUnchanged

\* the machine ids of a dict in insertion order (ids are numbered in the
\* order they were inserted)
RECURSIVE Ascending(_)
Ascending(ids) ==
    IF ids = {} THEN << >>
    ELSE LET least == CHOOSE i \in ids : \A j \in ids : i <= j
         IN <<least>> \o Ascending(ids \ {least})

\* stop_all(), up to the await of its first stop
sim_stop_all(caller) ==
    /\ sim.task[caller].pc = "idle"
    /\ LET todo == Ascending(DOMAIN sim.instances)
       IN IF todo = << >>
          THEN /\ call' = [op |-> "stop_all", caller |-> caller,
                           machine_id |-> 0, raised |-> "none",
                           suspended |-> FALSE]
               /\ UNCHANGED sim
          ELSE /\ sim' = SimStopEnter(sim, caller, Head(todo), "stop_all",
                                      Tail(todo))
               /\ call' = [op |-> "stop_all", caller |-> caller,
                           machine_id |-> 0, raised |-> "none",
                           suspended |-> TRUE]
    /\ SimUnchanged

(***************************************************************************)
(* Register encoding of the simulator (simulator/register_map.py) and the  *)
(* decoding of the driver (drivers/modbus.py).  A value is a fraction       *)
(* [num, den]; encode_value gets the value q / (2 * multiplier), so that    *)
(* its scaled value is a multiple of one half.  The arithmetic is exact     *)
(* where Python's is in double precision.  Float registers (is_float) are   *)
(* not modelled.                                                            *)
(***************************************************************************)
_DIVISORS == <<1, 10, 100, 1000>>

\* _DIVISORS.get(config.divisor, 1) and _DIVISOR_MULT.get(config.divisor, 1)
DivisorOf(config) == _DIVISORS[config.divisor + 1]

RegisterConfigs ==
    [divisor : 0..3, mode : {"C", "", "F"}, is_bcd : BOOLEAN]

\* Python's round(a / d) for integers a and d > 0: to the nearest integer,
\* a tie to the even one
RoundDiv(a, d) ==
    LET floor == a \div d
        rest == a % d
    IN IF 2 * rest > d \/ (2 * rest = d /\ floor % 2 = 1)
       THEN floor + 1 ELSE floor

\* register_map._int_to_bcd: the decimal digits of value, one per nibble
RECURSIVE _int_to_bcd(_)
_int_to_bcd(value) ==
    IF value <= 0 THEN 0
    ELSE (value % 10) + 16 * _int_to_bcd(value \div 10)

\* modbus._bcd_to_int: the nibbles of value read as decimal digits
RECURSIVE _bcd_to_int(_)
_bcd_to_int(value) ==
    IF value <= 0 THEN 0
    ELSE (value % 16) + 10 * _bcd_to_int(value \div 16)

\* the value q / (2 * multiplier of config)
ValueOf(q, config) == [num |-> q, den |-> 2 * DivisorOf(config)]

\* register_map.encode_value for an integer register: the register list
encode_value(q, config) ==
    LET multiplier == DivisorOf(config)
        \* value * multiplier, in tenths
        scaled10 == IF config.mode = "F"
                    THEN 9 * q + 320 * multiplier
                    ELSE 5 * q
        rounded == RoundDiv(scaled10, 10)
        clamped == IF rounded > 32767 THEN 32767
                   ELSE IF rounded < -32768 THEN -32768 ELSE rounded
    IN IF config.is_bcd
       THEN <<_int_to_bcd(rounded)>>
       ELSE <<IF clamped < 0 THEN clamped + 65536 ELSE clamped>>

decode_registers_Unsigned(registers, config) ==
    LET raw == registers[1]
        value == IF config.is_bcd THEN _bcd_to_int(raw) ELSE raw
        divisor == DivisorOf(config)
    IN IF config.mode = "F"
       THEN [num |-> (value - 32 * divisor) * 5, den |-> 9 * divisor]
       ELSE [num |-> value, den |-> divisor]

\* ModbusDriver._read_register, lines 242-265: the value decoded from the
\* registers of an integer register
decode_registers(registers, config) ==
    LET raw == registers[1]
        value == IF config.is_bcd THEN _bcd_to_int(raw)
                 ELSE IF raw >= 32768 THEN raw - 65536 ELSE raw
        divisor == DivisorOf(config)
    IN IF config.mode = "F"
       THEN [num |-> (value - 32 * divisor) * 5, den |-> 9 * divisor]
       ELSE [num |-> value, den |-> divisor]

\* the inputs of encode_value explored: values around the boundaries of
\* the register encodings, on every integer register config
CodecBoundaries == {-40000, -32768, 0, 9999, 10000, 32767, 40000}

CodecInputs ==
    {[op |-> "input", q |-> 2 * n + d, config |-> config] :
        n \in CodecBoundaries, d \in (-2 * CodecSpan)..(2 * CodecSpan),
        config \in RegisterConfigs}

\* the simulator encodes a value into its register
codec_encode ==
    /\ call.op = "input"
    /\ call' = [op |-> "encode_value", q |-> call.q, config |-> call.config,
                registers |-> encode_value(call.q, call.config)]
    /\ UNCHANGED <<instances, sampling_task, sleep_until, now, ws_open,
                   handler, modbus, sim, connects, fanout>>

\* the driver reads and decodes the register
codec_decode ==
    /\ call.op = "encode_value"
    /\ call' = [op |-> "_read_register", q |-> call.q,
                config |-> call.config, registers |-> call.registers,
                decoded |-> decode_registers(call.registers, call.config)]
    /\ UNCHANGED <<instances, sampling_task, sleep_until, now, ws_open,
                   handler, modbus, sim, connects, fanout>>

(***************************************************************************)
(* Initial state: a MachineManager right after __init__, no observer.      *)
(***************************************************************************)
Init ==
    /\ instances = [m \in {} |-> NoValue]
    /\ sampling_task = [m \in MachineIds |-> "none"]
    /\ sleep_until = [m \in MachineIds |-> 0]
    /\ now = 0
    /\ ws_open = [ws \in Observers |-> None]
    /\ handler = [ws \in Observers |-> HandlerAt("closed")]
    /\ modbus = [driver |-> ModbusDriver(Storage["m1"]).driver, pc |-> "idle"]
    /\ sim = SimulatorManager
    /\ connects = NoConnects
    /\ fanout = NoFanout
    /\ call = [op |-> "init"]

(***************************************************************************)
(* Inputs.                                                                 *)
(***************************************************************************)
Reading1 == [et |-> 210, bt |-> 155]
Reading2 == [et |-> 212, bt |-> 158]
EventTypes == {None, "CHARGE"}
Channels == {"gas", "air", "drum", "fan", "unknown"}
NormalizedValues == {0, 7, 10}
ControlFrames ==
    {ControlFrame(ch, v, en) :
        ch \in {"gas", "air"},
        v \in {[kind |-> "number", n |-> 7], [kind |-> "number", n |-> 11],
               [kind |-> "text"], [kind |-> "absent"]},
        en \in {"true", "false", "absent"}}

(***************************************************************************)
(* Spec: one manager, its sampling loops, the clock and session commands.  *)
(***************************************************************************)
Connect == \E m \in MachineIds, ok \in BOOLEAN : connect_machine(m, ok)

Disconnect == \E m \in MachineIds, dead \in SUBSET Observers :
                  disconnect_machine(m, dead, TRUE)

Sample == \E m \in MachineIds : _sampling_loop(m, "ok", FALSE, Reading1, {})

Command == \E m \in MachineIds, a \in CommandActions :
               \E e \in IF a = "mark_event" THEN EventTypes ELSE {None} :
                   SessionCommand(m, a, e)

Next ==
    \/ Connect
    \/ Disconnect
    \/ Sample
    \/ Tick(MaxTicks)
    \/ Command

Spec == Init /\ [][Next]_vars

(***************************************************************************)
(* SpecRing: one machine sampled for longer than the ring buffer holds,    *)
(* with the clock advancing while the loop sleeps.                         *)
(***************************************************************************)
SleepElapses(max_ticks) ==
    /\ \E m \in MachineIds : sampling_task[m] = "running"
    /\ \A m \in MachineIds :
          sampling_task[m] = "running" => MonotonicMs < sleep_until[m]
    /\ Tick(max_ticks)

RingConnect == connect_machine("m1", TRUE)

RingSample == _sampling_loop("m1", "ok", FALSE, Reading1, {})

RingCommand == SessionCommand("m1", "start_monitoring", None)

NextRing ==
    \/ RingConnect
    \/ RingSample
    \/ SleepElapses(MaxRingTicks)
    \/ RingCommand

SpecRing == Init /\ [][NextRing]_vars

(***************************************************************************)
(* SpecLoop: connect, disconnect, observers and a sampling loop whose      *)
(* reads may fail.                                                         *)
(***************************************************************************)
LoopConnect == \E ok \in BOOLEAN : connect_machine("m1", ok)

LoopDisconnect ==
    \E dead \in SUBSET Observers, close_ok \in BOOLEAN :
        disconnect_machine("m1", dead, close_ok)

LoopSample ==
    \E transport \in ReadTransports, extra_fault \in BOOLEAN,
       dead \in SUBSET Observers :
        _sampling_loop("m1", transport, extra_fault, Reading1, dead)

LoopAttach == live_data("ws1", "m1")

LoopDetach == live_disconnect("ws1")

NextLoop ==
    \/ LoopConnect
    \/ LoopDisconnect
    \/ LoopSample
    \/ Tick(MaxLoopTicks)
    \/ LoopAttach
    \/ LoopDetach

SpecLoop == Init /\ [][NextLoop]_vars

(***************************************************************************)
(* SpecControl: control commands, called on the manager and sent as        *)
(* frames through the live endpoint.                                       *)
(***************************************************************************)
ControlConnect == connect_machine("m1", TRUE)

ControlCall ==
    \E ch \in Channels, v \in NormalizedValues,
       en \in BOOLEAN, fail_at \in 0..1 :
        Control("m1", ch, v, en, fail_at)

ControlAttach == live_data("ws1", "m1")

ControlFrameReceived ==
    \E data \in ControlFrames, fail_at \in 0..1 :
        _handle_control("ws1", data, fail_at)

NextControl ==
    \/ ControlConnect
    \/ ControlCall
    \/ ControlAttach
    \/ ControlFrameReceived

SpecControl == Init /\ [][NextControl]_vars

(***************************************************************************)
(* SpecControlLog: control commands on a machine whose session moves       *)
(* through its states.                                                     *)
(***************************************************************************)
LogConnect == connect_machine("m1", TRUE)

LogCommand ==
    \E a \in {"start_monitoring", "start_recording", "stop_recording"} :
        SessionCommand("m1", a, None)

LogControl ==
    \E ch \in {"air", "drum"}, en \in BOOLEAN, fail_at \in {0, 2} :
        Control("m1", ch, 7, en, fail_at)

NextControlLog ==
    \/ LogConnect
    \/ LogCommand
    \/ LogControl
    \/ Tick(MaxTicks)

SpecControlLog == Init /\ [][NextControlLog]_vars

(***************************************************************************)
(* SpecSession: one machine through monitoring, recording and reset, with  *)
(* samples, marked events and control changes.                             *)
(***************************************************************************)
SessionConnect == connect_machine("m1", TRUE)

SessionSample == _sampling_loop("m1", "ok", FALSE, Reading1, {})

SessionCommands ==
    \E a \in {"start_monitoring", "start_recording", "stop_recording",
               "mark_event", "reset"} :
        SessionCommand("m1", a, IF a = "mark_event" THEN "CHARGE" ELSE None)

SessionControl == Control("m1", "gas", 7, TRUE, 0)

NextSession ==
    \/ SessionConnect
    \/ SessionSample
    \/ SessionCommands
    \/ SessionControl
    \/ Tick(MaxTicks)

SpecSession == Init /\ [][NextSession]_vars

(***************************************************************************)
(* SpecRor: one machine whose temperatures change between samples, with    *)
(* the commands that start a session.                                      *)
(***************************************************************************)
RorConnect == connect_machine("m1", TRUE)

RorSample ==
    \E reading \in {Reading1, Reading2}, transport \in {"ok", "io_exception"} :
        _sampling_loop("m1", transport, FALSE, reading, {})

RorCommand ==
    \E a \in {"start_monitoring", "start_recording", "reset"} :
        SessionCommand("m1", a, None)

NextRor ==
    \/ RorConnect
    \/ RorSample
    \/ RorCommand
    \/ Tick(MaxTicks)

SpecRor == Init /\ [][NextRor]_vars

(***************************************************************************)
(* SpecDriver: one ModbusDriver through connects, disconnects, reads and   *)
(* writes, in any order, also while its connect() awaits the handshake.    *)
(***************************************************************************)
Handshakes == {"connected", "unconnected", "raises"}
NativeValues == {70, 475, 599}

DriverConnect == driver_connect

DriverConnectDone == \E handshake \in Handshakes : driver_connect_done(handshake)

DriverDisconnect == \E close_ok \in BOOLEAN : driver_disconnect(close_ok)

DriverRead == \E transport \in ReadTransports : driver_read_temperatures(transport)

DriverWrite ==
    \E channel \in {"gas", "air", "drum", "fan"}, value \in NativeValues,
       fail_at \in 0..2 :
        driver_write_control(channel, value, fail_at)

DriverConnectCancelled == driver_connect_cancelled

NextDriver ==
    \/ DriverConnect
    \/ DriverConnectDone
    \/ DriverConnectCancelled
    \/ DriverDisconnect
    \/ DriverRead
    \/ DriverWrite

SpecDriver == Init /\ [][NextDriver]_vars

(***************************************************************************)
(* SpecSim: two callers of one SimulatorManager, interleaving at the       *)
(* awaits of start, stop and stop_all.                                     *)
(***************************************************************************)
SimStart == \E caller \in Callers, catalog_id \in CatalogIds :
                sim_start(caller, catalog_id)

SimStartDone == \E caller \in Callers, listen_ok \in BOOLEAN :
                    sim_start_done(caller, listen_ok)

SimStop == \E caller \in Callers, machine_id \in 1..MaxSimStarts :
               sim_stop(caller, machine_id)

SimStopDone == \E caller \in Callers, shutdown_ok \in BOOLEAN :
                   sim_stop_done(caller, shutdown_ok)

SimStopAll == \E caller \in Callers : sim_stop_all(caller)

NextSim ==
    \/ SimStart
    \/ SimStartDone
    \/ SimStop
    \/ SimStopDone
    \/ SimStopAll

SpecSim == Init /\ [][NextSim]_vars

(***************************************************************************)
(* SpecConnect: two callers of connect_machine for one machine,            *)
(* interleaving at the await of driver.connect(), with disconnect_machine   *)
(* and the sampling loop.                                                   *)
(***************************************************************************)
ConnectBegin ==
    \E caller \in Callers, machine_id \in MachineIds :
        connect_machine_begin(caller, machine_id)

ConnectEnd ==
    \E caller \in Callers, handshake \in Handshakes :
        connect_machine_end(caller, handshake)

ConnectDisconnect ==
    \E close_ok \in BOOLEAN : disconnect_machine("m1", {}, close_ok)

ConnectSample ==
    \E transport \in {"ok", "io_exception"} :
        _sampling_loop("m1", transport, FALSE, Reading1, {})

NextConnect ==
    \/ ConnectBegin
    \/ ConnectEnd
    \/ ConnectDisconnect
    \/ ConnectSample
    \/ Tick(MaxTicks)

SpecConnect == Init /\ [][NextConnect]_vars

(***************************************************************************)
(* SpecFanout: observers attach, detach and are evicted while the sampling *)
(* loop is suspended in a send of its fan-out.                              *)
(***************************************************************************)
FanoutConnect == connect_machine("m1", TRUE)

FanoutAttach == \E ws \in Observers : live_data(ws, "m1")

FanoutDetach == \E ws \in Observers : live_disconnect(ws)

\* a session command whose state frame cannot be sent to the observers in
\* dead: _handle_command discards them
FanoutCommand ==
    \E ws \in Observers, dead \in SUBSET Observers :
        live_data_receive(ws,
            CommandFrame("start_monitoring", None, [kind |-> "absent"]),
            0, dead)

FanoutBegin ==
    \E first \in Observers \cup {None} :
        _sampling_loop_begin("m1", Reading1, first)

FanoutStep ==
    \E send_ok \in BOOLEAN, next_ws \in Observers \cup {None} :
        _broadcast_step("m1", send_ok, next_ws)

NextFanout ==
    \/ FanoutConnect
    \/ FanoutAttach
    \/ FanoutDetach
    \/ FanoutCommand
    \/ FanoutBegin
    \/ FanoutStep
    \/ Tick(MaxTicks)

SpecFanout == Init /\ [][NextFanout]_vars

(***************************************************************************)
(* SpecCodec: a value is encoded into a register by the simulator and      *)
(* decoded from it by the driver, for every explored value and config.     *)
(***************************************************************************)
InitCodec ==
    /\ instances = [m \in {} |-> NoValue]
    /\ sampling_task = [m \in MachineIds |-> "none"]
    /\ sleep_until = [m \in MachineIds |-> 0]
    /\ now = 0
    /\ ws_open = [ws \in Observers |-> None]
    /\ handler = [ws \in Observers |-> HandlerAt("closed")]
    /\ modbus = [driver |-> ModbusDriver(Storage["m1"]).driver, pc |-> "idle"]
    /\ sim = SimulatorManager
    /\ connects = NoConnects
    /\ fanout = NoFanout
    /\ call \in CodecInputs

NextCodec ==
    \/ codec_encode
    \/ codec_decode

SpecCodec == InitCodec /\ [][NextCodec]_vars

(***************************************************************************)
(* SpecLive: two observers whose live_data handlers interleave, at their   *)
(* suspension points, with each other and with the sampling loop.          *)
(***************************************************************************)
LiveFrames ==
    {ControlFrame("gas", [kind |-> "number", n |-> 11], "absent"),
     ControlFrame("gas", [kind |-> "text"], "absent"),
     ControlFrame("gas", [kind |-> "null"], "absent"),
     ControlFrame("gas", [kind |-> "numeric_text", n |-> 7], "absent"),
     ControlFrame("gas", [kind |-> "absent"], "absent"),
     CommandFrame("start_monitoring", None, [kind |-> "absent"]),
     CommandFrame("stop_monitoring", None, [kind |-> "absent"]),
     CommandFrame("warm_up", None, [kind |-> "absent"]),
     OtherFrame("ping"),
     ArrayFrame}

LiveConnect == connect_machine("m1", TRUE)

LiveAccept ==
    \E ws \in Observers, m \in {"m1", "m2"} : live_data_accept(ws, m)

LiveState == \E ws \in Observers : live_data_state(ws)

LiveSubscribe == \E ws \in Observers : live_data_subscribe(ws)

LiveClose == \E ws \in Observers : live_data_close(ws)

LiveSample ==
    \E transport \in {"ok", "error_response"}, dead \in SUBSET Observers :
        _sampling_loop("m1", transport, FALSE, Reading1, dead)

LiveReceive ==
    \E ws \in Observers, data \in LiveFrames, dead \in SUBSET Observers :
        live_data_receive(ws, data, 0, dead)

LiveDisconnect == \E ws \in Observers : live_disconnect(ws)

NextLive ==
    \/ LiveConnect
    \/ LiveAccept
    \/ LiveState
    \/ LiveSubscribe
    \/ LiveClose
    \/ LiveSample
    \/ LiveReceive
    \/ LiveDisconnect

SpecLive == Init /\ [][NextLive]_vars

(***************************************************************************)
(* SpecSync: sync commands of two observers on a sampled machine.          *)
(***************************************************************************)
SyncFrames ==
    {CommandFrame("sync", None, ts) :
        ts \in {[kind |-> "absent"], [kind |-> "text"],
                [kind |-> "number", n |-> 0],
                [kind |-> "number", n |-> SamplingIntervalMs]}}

SyncConnect == connect_machine("m1", TRUE)

SyncAttach == \E ws \in Observers, m \in {"m1", "m2"} : live_data(ws, m)

SyncSample == _sampling_loop("m1", "ok", FALSE, Reading1, {})

SyncCommand == SessionCommand("m1", "start_monitoring", None)

SyncReceive ==
    \E ws \in Observers, data \in SyncFrames :
        live_data_receive(ws, data, 0, {})

SyncReplay == \E ws \in Observers : _handle_command_replay(ws)

SyncDisconnect == \E ws \in Observers : live_disconnect(ws)

NextSync ==
    \/ SyncConnect
    \/ SyncAttach
    \/ SyncSample
    \/ SyncCommand
    \/ SyncReceive
    \/ SyncReplay
    \/ SyncDisconnect
    \/ Tick(MaxSyncTicks)

SpecSync == Init /\ [][NextSync]_vars

(***************************************************************************)
(* Properties.                                                             *)
(***************************************************************************)
SessionOps ==
    {"start_monitoring", "start_recording", "stop_monitoring", "stop_recording"}

SessionStates == {"idle", "monitoring", "recording", "finished"}

AllowedEdge(action, from, to) ==
    \/ action = "start_monitoring" /\ from \in {"idle", "finished"}
                                   /\ to = "monitoring"
    \/ action = "start_recording" /\ from = "monitoring" /\ to = "recording"
    \/ action = "stop_monitoring" /\ from = "monitoring" /\ to = "idle"
    \/ action = "stop_recording" /\ from = "recording" /\ to = "finished"

HasEdge(action, from) == \E to \in SessionStates : AllowedEdge(action, from, to)

\* the step is a call of handle_session_command(m, one of ops)
CommandStep(m, ops) ==
    /\ call'.op = "handle_session_command"
    /\ call'.machine_id = m
    /\ call'.action \in ops

C1_Step ==
    \A m \in (DOMAIN instances) \cap (DOMAIN instances') :
        LET from == instances[m].session.state
            to == instances'[m].session.state
        IN /\ CommandStep(m, SessionOps) =>
                \/ /\ AllowedEdge(call'.action, from, to)
                   /\ call'.reply = StateMessage(to, from)
                \/ /\ ~HasEdge(call'.action, from)
                   /\ to = from
                   /\ call'.reply = ErrorMessage("INVALID_STATE_TRANSITION", TRUE)
           /\ to # from =>
                \/ CommandStep(m, SessionOps)
                \/ CommandStep(m, {"reset"})

\* C1: a session changes state only along idle->monitoring,
\* finished->monitoring (start_monitoring), monitoring->recording
\* (start_recording), monitoring->idle (stop_monitoring) and
\* recording->finished (stop_recording); every other call of these four
\* operations fails as an invalid state transition and leaves the state
\* unchanged.  (reset replaces the session by a fresh one.)
C1_SessionTransitions == [][C1_Step]_vars

\* C1 witness: a full cycle has reached finished and stop_monitoring was
\* rejected there.
C1_Witness ==
    /\ call.op = "handle_session_command"
    /\ call.action = "stop_monitoring"
    /\ call.reply.type = "error"
    /\ call.machine_id \in DOMAIN instances
    /\ instances[call.machine_id].session.state = "finished"

\* the step is an iteration of the sampling loop of m that produced a sample
SampleStep(m) ==
    /\ call'.op = "_sampling_loop"
    /\ call'.machine_id = m
    /\ call'.raised = "none"

C2_Step ==
    \A m \in (DOMAIN instances) \cap (DOMAIN instances') :
        LET before == instances[m].session
            after == instances'[m].session
        IN SampleStep(m) =>
              /\ after.state = before.state
              /\ before.state # "recording" => after.data = before.data
              /\ before.state = "recording" =>
                    /\ Len(after.data) = Len(before.data) + 1
                    /\ after.data[Len(after.data)].timestamp_ms =
                           call'.frame.timestamp_ms

\* C2: a reading fed to the session by the sampling loop is accepted in
\* every session state, and the stored samples change only while the
\* session is recording: in idle, monitoring and finished they are
\* unchanged, in recording exactly the reading is appended.
C2_ReadingsStoredOnlyWhileRecording == [][C2_Step]_vars

\* C2 witness: a sample was taken in the finished state of a session that
\* holds recorded data.
C2_Witness ==
    /\ call.op = "_sampling_loop"
    /\ call.raised = "none"
    /\ call.machine_id \in DOMAIN instances
    /\ instances[call.machine_id].session.state = "finished"
    /\ Len(instances[call.machine_id].session.data) >= 1

C3_Step ==
    \A m \in (DOMAIN instances) \cap (DOMAIN instances') :
        LET ring == instances[m].ring_buffer
            ring2 == instances'[m].ring_buffer
        IN IF SampleStep(m)
           THEN /\ Len(ring) < _RING_BUFFER_SIZE =>
                      ring2 = Append(ring, call'.frame)
                /\ Len(ring) >= _RING_BUFFER_SIZE =>
                      ring2 = Append(Tail(ring), call'.frame)
           ELSE ring2 = ring

\* C3: the ring buffer of a connected machine never holds more than
\* RING_CAPACITY = 120 frames; appending to a full buffer evicts the oldest
\* frame and keeps the newest, and nothing but a sample changes the buffer.
C3_RingBounded ==
    /\ [](\A m \in DOMAIN instances :
             Len(instances[m].ring_buffer) <= _RING_BUFFER_SIZE)
    /\ [][C3_Step]_vars

\* C3 witness: a sample was appended to a full buffer, which evicted the
\* frame with timestamp 0.
C3_Witness ==
    /\ call.op = "_sampling_loop"
    /\ call.raised = "none"
    /\ call.machine_id \in DOMAIN instances
    /\ LET ring == instances[call.machine_id].ring_buffer
       IN /\ Len(ring) = _RING_BUFFER_SIZE
          /\ ring[1].timestamp_ms > 0
          /\ ring[Len(ring)] = call.frame
          /\ instances[call.machine_id].start_time_ms = 0

\* C4: consecutive entries of a connected machine's ring buffer have
\* strictly increasing timestamp_ms.
C4_RingTimestampsIncrease ==
    \A m \in DOMAIN instances :
        LET ring == instances[m].ring_buffer
        IN \A i \in 1..(Len(ring) - 1) :
              ring[i].timestamp_ms < ring[i + 1].timestamp_ms

\* C5: right after a successful start_monitoring or start_recording command
\* the ring buffer is empty and prev_et/prev_bt are undefined.
C5_RingClearedOnStart ==
    \A m \in DOMAIN instances :
        ( /\ call.op = "handle_session_command"
          /\ call.machine_id = m
          /\ call.action \in {"start_monitoring", "start_recording"}
          /\ call.reply.type = "state" )
        => /\ instances[m].ring_buffer = << >>
           /\ instances[m].prev_et = NoValue
           /\ instances[m].prev_bt = NoValue

\* C6: a machine id is in the instance set if and only if a sampling loop
\* for it exists and has not terminated.
C6_InstanceIffLoop ==
    \A m \in MachineIds :
        m \in DOMAIN instances <=> sampling_task[m] = "running"

C7_Step ==
    \A m \in (DOMAIN instances) \cap (DOMAIN instances') :
        LET errors == instances[m].consecutive_errors
            errors2 == instances'[m].consecutive_errors
            iteration == call'.op = "_sampling_loop" /\ call'.machine_id = m
        IN /\ (iteration /\ call'.raised = "none") =>
                /\ errors2 = 0
                /\ sampling_task'[m] = "running"
           /\ (iteration /\ call'.raised = "ConnectionError") =>
                /\ errors2 = errors + 1
                /\ errors2 < _MAX_CONSECUTIVE_ERRORS =>
                      /\ call'.frame =
                             ErrorMessage("DRIVER_READ_FAILED", TRUE)
                      /\ sampling_task'[m] = "running"
                      /\ sleep_until'[m] > MonotonicMs
                /\ errors2 >= _MAX_CONSECUTIVE_ERRORS =>
                      /\ errors2 = _MAX_CONSECUTIVE_ERRORS
                      /\ call'.frame =
                             ConnectionMessage("error",
                                               DriverName(instances[m].machine))
                      /\ sampling_task'[m] = "done"
           /\ iteration =>
                /\ sampling_task[m] = "running"
                /\ call'.sent_to \subseteq instances[m].subscribers
           /\ (~iteration /\ sampling_task[m] = "running") =>
                /\ errors2 = errors
                /\ sampling_task'[m] = "running"

\* C7: in the sampling loop every connection-class read failure increments
\* the error counter and every successful sample resets it to 0; a failure
\* that leaves the counter below 5 broadcasts a recoverable
\* DRIVER_READ_FAILED frame and the loop goes on; the failure that brings it
\* to 5 broadcasts a connection frame with driver_state error and ends the
\* loop, which runs no further iteration; nothing else changes the counter
\* of a running loop or ends the loop.
C7_ConsecutiveErrors == [][C7_Step]_vars

\* C7 witness: the loop has ended on its fifth consecutive failure after a
\* sample had been taken.
C7_Witness ==
    /\ call.op = "_sampling_loop"
    /\ call.outcome = "lost_connection"
    /\ call.machine_id \in DOMAIN instances
    /\ instances[call.machine_id].consecutive_errors = _MAX_CONSECUTIVE_ERRORS
    /\ Len(instances[call.machine_id].ring_buffer) >= 1
    /\ sampling_task[call.machine_id] = "done"

\* C8: handle_control with enabled=false calls driver.write_control with
\* the value exactly 0, whatever the control's min and max, and returns an
\* acknowledgment with enabled=false and applied=true.
C8_DisabledWritesZero ==
    ( /\ call.op = "handle_control"
      /\ ~call.enabled
      /\ call.driver_call # NoValue )
    => /\ call.driver_call.value = 0
       /\ call.driver_call.raised = "none" =>
             /\ call.ack.applied
             /\ ~call.ack.enabled

\* C9: the live endpoint passes the enabled flag of an inbound control
\* frame (true when absent) to handle_control, and the acknowledgment
\* carries that flag.
C9_EnabledFlagPassed ==
    ( /\ call.op = "_handle_control"
      /\ call.passed # NoValue )
    => /\ call.passed.enabled = (call.data.enabled # "false")
       /\ call.reply # NoValue =>
             call.reply.enabled = (call.data.enabled # "false")

\* C10: handle_control always returns an acknowledgment and never raises;
\* applied is true exactly when driver.write_control was called and
\* completed; every driver failure yields applied=false with a message.
C10_ControlNeverRaises ==
    call.op = "handle_control"
    => /\ call.raised = "none"
       /\ call.ack # NoValue
       /\ call.ack.applied <=>
             (call.driver_call # NoValue /\ call.driver_call.raised = "none")
       /\ (call.driver_call # NoValue /\ call.driver_call.raised # "none") =>
             call.ack.message # ""

\* the operations run by the live_data handler of an observer
ObserverOps ==
    {"live_data", "live_data_accept", "live_data_close", "live_data_state",
     "live_data_subscribe", "live_disconnect", "live_data_receive",
     "_handle_control", "_handle_command", "_handle_command_replay"}

\* the operation recorded in c was run by the handler of ws
ByObserver(c, ws) == c.op \in ObserverOps /\ c.ws = ws

\* the observers the operation recorded in c delivered a frame to, other
\* than as the reply to their own inbound frame
SentTo(c) ==
    IF c.op \in {"disconnect_machine", "_sampling_loop", "live_data_accept",
                 "live_data_close", "live_data_state", "live_data_subscribe",
                 "live_data_receive", "_handle_control", "_handle_command",
                 "_handle_command_replay"}
    THEN c.sent_to
    ELSE {}

\* ws is in the subscriber set of an instance
Registered(insts, ws) == \E m \in DOMAIN insts : ws \in insts[m].subscribers

C11_Step ==
    \A m \in (DOMAIN instances) \cap (DOMAIN instances') :
        LET before == instances[m].session
            after == instances'[m].session
            is_control == call'.op = "handle_control" /\ call'.machine_id = m
            applied == /\ is_control
                       /\ call'.driver_call # NoValue
                       /\ call'.driver_call.raised = "none"
            active == before.state \in {"monitoring", "recording"}
            channel == call'.channel
            old == IF channel \in DOMAIN before.controls
                   THEN before.controls[channel] ELSE << >>
            elapsed_ms == MonotonicMs - instances[m].start_time_ms
        IN /\ is_control =>
                /\ after.state = before.state
                /\ applied <=> (call'.ack # NoValue /\ call'.ack.applied)
           /\ (applied /\ active) =>
                /\ DOMAIN after.controls = (DOMAIN before.controls) \cup {channel}
                /\ after.controls[channel] =
                       Append(old, <<elapsed_ms, call'.driver_call.value>>)
                /\ \A c \in (DOMAIN before.controls) \ {channel} :
                       after.controls[c] = before.controls[c]
           /\ (is_control /\ ~(applied /\ active)) =>
                after.controls = before.controls
           /\ ~is_control =>
                \/ after.controls = before.controls
                \/ after.controls = EmptyDict

\* C11: handle_control appends a control change to the session's control
\* log exactly when the driver write succeeded (the acknowledgment says
\* applied) while the session is monitoring or recording; the entry holds
\* the native value passed to driver.write_control; in idle or finished, or
\* when the write failed, the log is unchanged; no other operation appends
\* to the log.
C11_ControlLogged == [][C11_Step]_vars

\* C11 witness: in monitoring, 500 ms after the session started, a change
\* of "air" was applied and logged with the native value 52.5 that the
\* driver was called with.
C11_Witness ==
    /\ call.op = "handle_control"
    /\ call.channel = "air"
    /\ call.ack.applied
    /\ call.driver_call.value = 525
    /\ "m1" \in DOMAIN instances
    /\ instances["m1"].session.state = "monitoring"
    /\ "air" \in DOMAIN instances["m1"].session.controls
    /\ LET log == instances["m1"].session.controls["air"]
       IN log[Len(log)] = <<500, 525>>

C12_Step ==
    \A m \in MachineIds :
        (call'.op = "connect_machine" /\ call'.machine_id = m) =>
            LET machine == storage_get(m)
                not_stored == machine = NoValue
                no_driver == /\ ~not_stored
                             /\ machine.protocol \notin
                                    {"modbus_rtu", "modbus_tcp"}
                no_link == ~not_stored /\ ~no_driver /\ ~call'.connect_ok
                fails == /\ m \notin DOMAIN instances
                         /\ (not_stored \/ no_driver \/ no_link)
            IN /\ fails =>
                    /\ call'.raised # "none"
                    /\ not_stored => call'.raised = "ValueError"
                    /\ no_driver => call'.raised = "NotImplementedError"
                    /\ no_link => call'.raised = "ConnectionError"
                    /\ instances' = instances
                    /\ m \notin DOMAIN instances'
                    /\ sampling_task' = sampling_task
                    /\ sampling_task'[m] # "running"
               /\ (~fails /\ m \notin DOMAIN instances) =>
                    /\ call'.raised = "none"
                    /\ m \in DOMAIN instances'
                    /\ sampling_task'[m] = "running"

\* C12: when connect_machine fails (the machine is not in storage, the
\* driver factory raises, or driver.connect() raises) the error reaches the
\* caller, the instance set is unchanged and holds no instance for that id,
\* and no sampling loop is started; otherwise a new machine gets an
\* instance and a running loop.
C12_ConnectFailureLeavesNothing == [][C12_Step]_vars

\* C12 witness: reconnecting a machine that had been connected and
\* disconnected failed in driver.connect().
C12_Witness ==
    /\ call.op = "connect_machine"
    /\ call.machine_id = "m1"
    /\ call.raised = "ConnectionError"
    /\ "m1" \notin DOMAIN instances
    /\ sampling_task["m1"] = "cancelled"

C13_Step ==
    \A m \in MachineIds :
        LET is_disconnect ==
                call'.op = "disconnect_machine" /\ call'.machine_id = m
        IN /\ (is_disconnect /\ m \in DOMAIN instances) =>
                /\ call'.raised = "none"
                /\ call'.task_at_disconnect \in {"cancelled", "done"}
                /\ sampling_task[m] = "running" =>
                       call'.task_at_disconnect = "cancelled"
                /\ sampling_task'[m] = call'.task_at_disconnect
                /\ call'.frame =
                       ConnectionMessage("disconnected",
                                         DriverName(instances[m].machine))
                /\ call'.sent_to \cup call'.failed = instances[m].subscribers
                /\ m \notin DOMAIN instances'
           /\ (is_disconnect /\ m \notin DOMAIN instances) =>
                /\ call'.frame = NoValue
                /\ call'.sent_to = {}
                /\ call'.raised = "none"
                /\ UNCHANGED <<sim, connects, fanout, modbus, instances, sampling_task, sleep_until, now,
                               ws_open, handler>>
           /\ (call'.op = "_sampling_loop" /\ call'.machine_id = m) =>
                /\ m \in DOMAIN instances
                /\ sampling_task[m] = "running"
           /\ (m \notin DOMAIN instances /\ m \in DOMAIN instances') =>
                instances'[m].subscribers = {}

\* C13: disconnect_machine of a connected machine cancels the sampling loop,
\* which has terminated when driver.disconnect() is called, sends every
\* observer of the instance a connection frame with driver_state
\* disconnected, removes the id from the instance set and raises nothing,
\* also when driver.disconnect() raises; afterwards no loop runs for the
\* id, so no frame follows the disconnected frame, and a later instance of
\* the id starts without observers; for an unknown id nothing changes.
C13_DisconnectStopsLoopFirst ==
    /\ [](\A m \in MachineIds :
             sampling_task[m] = "running" => m \in DOMAIN instances)
    /\ [][C13_Step]_vars

\* C13 witness: a machine with a running loop and an observer was
\* disconnected while driver.disconnect() raised.
C13_Witness ==
    /\ call.op = "disconnect_machine"
    /\ call.machine_id = "m1"
    /\ call.driver_raised = "Exception"
    /\ call.task_at_disconnect = "cancelled"
    /\ call.sent_to = {"ws1"}
    /\ "m1" \notin DOMAIN instances

C14_Step ==
    \A m \in (DOMAIN instances) \cap (DOMAIN instances') :
        ( /\ call'.op = "_sampling_loop"
          /\ call'.machine_id = m
          /\ call'.frame # NoValue )
        => /\ call'.failed \subseteq instances[m].subscribers
           /\ call'.sent_to = instances[m].subscribers \ call'.failed
           /\ instances'[m].subscribers =
                  instances[m].subscribers \ call'.failed
           /\ call'.outcome # "unexpected"
           /\ call'.outcome \in {"sample", "read_failed"} =>
                  sampling_task'[m] = "running"

IsSuffix(s, t) ==
    \E k \in 0..Len(t) : s = SubSeq(t, k + 1, Len(t))

\* C15: get_sync_messages(id, since_ms) returns, in buffer order, exactly
\* the ring-buffer frames with timestamp_ms > since_ms, and the result is a
\* suffix of the ring buffer; for an unknown machine it is empty.
C15_SyncIsSuffix ==
    (call.op = "_handle_command" /\ call.data.action = "sync") =>
        LET m == ws_open[call.ws]
        IN IF m \notin DOMAIN instances
           THEN call.replay = << >>
           ELSE LET ring == instances[m].ring_buffer
                IN /\ call.replay =
                          SelectSeq(ring, LAMBDA msg :
                                        msg.timestamp_ms > SinceOf(call.data))
                   /\ IsSuffix(call.replay, ring)

C16_Step ==
    \A ws \in Observers :
        LET m == ws_open[ws]
            begins == /\ call'.op = "_handle_command"
                      /\ call'.ws = ws
                      /\ call'.data.action = "sync"
            sends == call'.op = "_handle_command_replay" /\ call'.ws = ws
            replaying == handler[ws].pc = "replay"
        IN /\ begins =>
                /\ UNCHANGED <<sim, connects, fanout, modbus, instances, sampling_task, sleep_until, now,
                               ws_open>>
                /\ call'.replay =
                       IF m \in DOMAIN instances
                       THEN SelectSeq(instances[m].ring_buffer, LAMBDA msg :
                                msg.timestamp_ms > SinceOf(call'.data))
                       ELSE << >>
                /\ handler'[ws].pending = call'.replay
                /\ call'.sent_to = {}
                /\ call'.passed = NoValue
           /\ sends =>
                /\ replaying
                /\ call'.frame = Head(handler[ws].pending)
                /\ handler'[ws].pending = Tail(handler[ws].pending)
                /\ call'.sent_to = {ws}
                /\ UNCHANGED <<sim, connects, fanout, modbus, instances, sampling_task, sleep_until, now,
                               ws_open>>
           /\ (replaying /\ ~ByObserver(call', ws)) =>
                /\ handler'[ws] = handler[ws]
                /\ ( /\ call'.op = "_sampling_loop"
                     /\ call'.machine_id = m
                     /\ call'.frame # NoValue
                     /\ m \in DOMAIN instances
                     /\ ws \in instances[m].subscribers )
                   => ws \in call'.sent_to \cup call'.failed

\* C16: a sync command selects the frames to replay from the ring buffer as
\* it is when the command is handled and sends them, in order, to the
\* calling observer only; handling the command and sending the replay
\* change nothing in the manager; a sample produced while a replay is being
\* sent is not added to the replay and is broadcast to the subscribers,
\* the replaying observer included.
C16_SyncReplaysSnapshot == [][C16_Step]_vars

\* C16 witness: while ws1 still has frames of its replay to send and ws2 is
\* subscribed, the sampling loop produced a sample that went to both.
C16_Witness ==
    /\ call.op = "_sampling_loop"
    /\ call.outcome = "sample"
    /\ handler["ws1"].pc = "replay"
    /\ call.sent_to = {"ws1", "ws2"}
    /\ \A i \in 1..Len(handler["ws1"].pending) :
          handler["ws1"].pending[i].timestamp_ms < call.frame.timestamp_ms

C17_Step ==
    \A ws \in Observers :
        /\ ( /\ call'.op = "live_data_accept"
             /\ call'.ws = ws
             /\ call'.machine_id \notin DOMAIN instances )
           => /\ call'.frame = ErrorMessage("MACHINE_NOT_FOUND", FALSE)
              /\ call'.sent_to = {ws}
              /\ handler'[ws].pc = "sent_error"
              /\ instances' = instances
        /\ handler[ws].pc = "sent_error" =>
              IF ByObserver(call', ws)
              THEN /\ call'.op = "live_data_close"
                   /\ call'.close_code = 4004
                   /\ call'.frame = NoValue
                   /\ handler'[ws].pc = "closed"
                   /\ ws_open'[ws] = None
                   /\ instances' = instances
              ELSE /\ ws \notin SentTo(call')
                   /\ handler'[ws] = handler[ws]

\* C17: an observer attaching to a machine id without instance is sent one
\* error frame with code MACHINE_NOT_FOUND and recoverable=false; the next
\* thing its handler does is close the stream with code 4004 and end; it
\* receives no other frame and is at no time in a subscriber set.
C17_AttachUnknownMachine ==
    /\ [](\A ws \in Observers :
             handler[ws].pc = "sent_error" => ~Registered(instances, ws))
    /\ [][C17_Step]_vars

\* C17 witness: with m1 connected, the stream of ws1, which had asked for
\* m2, was closed.
C17_Witness ==
    /\ call.op = "live_data_close"
    /\ call.ws = "ws1"
    /\ call.machine_id = "m2"
    /\ "m1" \in DOMAIN instances
    /\ handler["ws1"].pc = "closed"

C18_Step ==
    \A ws \in Observers :
        LET m == ws_open[ws]
        IN /\ ( /\ call'.op = "live_data_accept"
                /\ call'.ws = ws
                /\ call'.machine_id \in DOMAIN instances )
              => /\ call'.frame.type = "connection"
                 /\ call'.sent_to = {ws}
                 /\ handler'[ws].pc = "sent_connection"
           /\ handler[ws].pc = "sent_connection" =>
                 IF ByObserver(call', ws)
                 THEN /\ call'.op = "live_data_state"
                      /\ call'.frame =
                             StateMessage(instances[m].session.state,
                                          instances[m].session.state)
                      /\ call'.sent_to = {ws}
                      /\ handler'[ws].pc = "sent_state"
                 ELSE ws \notin SentTo(call')
           /\ handler[ws].pc = "sent_state" =>
                 IF ByObserver(call', ws)
                 THEN /\ call'.op = "live_data_subscribe"
                      /\ call'.frame = NoValue
                      /\ ws \in instances'[m].subscribers
                      /\ handler'[ws].pc = "receiving"
                 ELSE ws \notin SentTo(call')
           /\ (Registered(instances', ws) /\ ~Registered(instances, ws)) =>
                 /\ handler[ws].pc = "sent_state"
                 /\ ByObserver(call', ws)

\* C18: the handler of an observer attaching to a connected machine sends a
\* connection frame, then a state frame with the session's state at that
\* moment, and only then registers the observer; until it is registered
\* the observer is in no subscriber set and receives no broadcast frame.
C18_AttachOrder ==
    /\ [](\A ws \in Observers :
             handler[ws].pc \in {"closed", "sent_connection", "sent_state"}
                 => ~Registered(instances, ws))
    /\ [][C18_Step]_vars

\* C18 witness: the sampling loop broadcast a frame to ws2 while ws1 had
\* received its connection frame but was not yet registered.
C18_Witness ==
    /\ call.op = "_sampling_loop"
    /\ call.frame # NoValue
    /\ call.sent_to = {"ws2"}
    /\ call.failed = {}
    /\ handler["ws1"].pc \in {"sent_connection", "sent_state"}

\* C19: the connection frame sent to an attaching observer carries the
\* driver's connection state at the time of the attach and the driver's
\* name.
C19_AttachReportsDriverState ==
    (call.op = "live_data" /\ call.close_code = 0) =>
        LET instance == instances[call.machine_id]
        IN call.frames[1] =
               ConnectionMessage(instance.driver.state,
                                 DriverName(instance.machine))

\* the frame is one the endpoint has to reject: a control frame whose value
\* is not a number in [0,1], a command frame with an unknown action, or
\* anything else
InvalidFrame(data) ==
    IF data = ArrayFrame
    THEN TRUE
    ELSE CASE data.type = "control" ->
                 ~(/\ data.value.kind = "number"
                   /\ 0 <= data.value.n
                   /\ data.value.n <= 10)
           [] data.type = "command" -> data.action \notin CommandActions
           [] OTHER -> TRUE

C20_Step ==
    ( /\ call'.op \in {"_handle_control", "_handle_command",
                       "live_data_receive"}
      /\ InvalidFrame(call'.data) )
    => /\ call'.reply # NoValue
       /\ call'.reply.type = "error"
       /\ call'.reply.code = "INVALID_MESSAGE"
       /\ call'.passed = NoValue
       /\ call'.sent_to = {}
       /\ UNCHANGED <<sim, connects, fanout, modbus, instances, ws_open, handler>>

\* C20: for every invalid inbound frame the endpoint replies to the sender
\* with an error frame of code INVALID_MESSAGE, calls neither
\* handle_control nor handle_session_command, leaves the sender registered
\* and its handler running, and sends nothing to other observers.
C20_InvalidFrameRejected == [][C20_Step]_vars

(***************************************************************************)
(* C21: a session command whose outcome is a state frame sends that frame   *)
(* to the calling observer as its reply and passes it on once to every      *)
(* other observer registered for the machine (an observer whose send raises  *)
(* is dropped instead); an error frame goes to the calling observer only.    *)
(***************************************************************************)
C21_Step ==
    \A ws \in Observers :
        ( /\ call'.op = "_handle_command"
          /\ call'.ws = ws
          /\ call'.passed # NoValue
          /\ ws_open[ws] \in DOMAIN instances )
        => LET m == ws_open[ws]
               others == instances[m].subscribers \ {ws}
           IN /\ call'.reply.type \in {"state", "error"}
              /\ call'.reply.type = "state" =>
                    /\ call'.sent_to \cup call'.failed = others
                    /\ call'.sent_to \cap call'.failed = {}
                    /\ ws \notin call'.sent_to
                    /\ instances'[m].subscribers =
                          instances[m].subscribers \ call'.failed
              /\ call'.reply.type = "error" =>
                    /\ call'.sent_to = {}
                    /\ call'.failed = {}
                    /\ instances'[m].subscribers = instances[m].subscribers

C21_StateFrameFanOut == [][C21_Step]_vars

\* one observer's start_monitoring is answered with a state frame that is
\* also delivered to the other registered observer
C21_Witness ==
    /\ call.op = "_handle_command"
    /\ call.ws = "ws1"
    /\ call.passed # NoValue
    /\ call.reply.type = "state"
    /\ call.sent_to = {"ws2"}
    /\ "ws1" \in DOMAIN handler /\ handler["ws1"].pc = "receiving"

(***************************************************************************)
(* C22: a session command that the state machine does not allow in the      *)
(* current state returns an error frame with code INVALID_STATE_TRANSITION   *)
(* and leaves the whole instance as it was: session state, stored samples,   *)
(* events and control log, start_time_ms, prev_et/prev_bt, ring buffer.      *)
(***************************************************************************)
C22_Step ==
    \A m \in MachineIds :
        ( /\ CommandStep(m, SessionOps)
          /\ m \in DOMAIN instances
          /\ ~HasEdge(call'.action, instances[m].session.state) )
        => /\ call'.reply = ErrorMessage("INVALID_STATE_TRANSITION", TRUE)
           /\ m \in DOMAIN instances'
           /\ instances'[m].session = instances[m].session
           /\ instances'[m].start_time_ms = instances[m].start_time_ms
           /\ instances'[m].prev_et = instances[m].prev_et
           /\ instances'[m].prev_bt = instances[m].prev_bt
           /\ instances'[m].ring_buffer = instances[m].ring_buffer
           /\ instances' = instances

C22_InvalidTransitionChangesNothing == [][C22_Step]_vars

\* start_recording was refused while a recording with a stored sample and
\* a defined prev_et is running, some time after the recording started
C22_Witness ==
    /\ call.op = "handle_session_command"
    /\ call.action = "start_recording"
    /\ call.reply = ErrorMessage("INVALID_STATE_TRANSITION", TRUE)
    /\ "m1" \in DOMAIN instances
    /\ instances["m1"].session.state = "recording"
    /\ instances["m1"].session.data # << >>
    /\ instances["m1"].prev_et # NoValue
    /\ instances["m1"].ring_buffer # << >>
    /\ instances["m1"].start_time_ms < MonotonicMs

(***************************************************************************)
(* C23: mark_event stores an event only while the session is recording.     *)
(* With a null event_type the reply is an INVALID_MESSAGE error; with an     *)
(* event type outside recording it is an INVALID_STATE_TRANSITION error; in  *)
(* both cases the instance is unchanged.  While recording, exactly one event *)
(* (the given type, the time elapsed since start_time_ms) is appended,       *)
(* nothing else changes, and the reply is a state frame whose state and      *)
(* previous_state are both the unchanged session state.                      *)
(***************************************************************************)
C23_Step ==
    \A m \in MachineIds :
        ( /\ CommandStep(m, {"mark_event"})
          /\ m \in DOMAIN instances )
        => LET before == instances[m]
               state == before.session.state
           IN /\ call'.event_type = None =>
                    /\ call'.reply = ErrorMessage("INVALID_MESSAGE", TRUE)
                    /\ instances' = instances
              /\ (call'.event_type # None /\ state # "recording") =>
                    /\ call'.reply =
                          ErrorMessage("INVALID_STATE_TRANSITION", TRUE)
                    /\ instances' = instances
              /\ (call'.event_type # None /\ state = "recording") =>
                    /\ call'.reply = StateMessage(state, state)
                    /\ instances' = [instances EXCEPT ![m].session.events =
                          Append(@, [event_type |-> call'.event_type,
                                     timestamp_ms |->
                                         MonotonicMs - before.start_time_ms,
                                     auto_detected |-> FALSE])]
                    /\ instances'[m].session.state = state

C23_MarkEventOnlyWhileRecording == [][C23_Step]_vars

\* an event was marked in a recording, some time after its start
C23_Witness ==
    /\ call.op = "handle_session_command"
    /\ call.action = "mark_event"
    /\ call.reply = StateMessage("recording", "recording")
    /\ "m1" \in DOMAIN instances
    /\ Len(instances["m1"].session.events) = 1
    /\ instances["m1"].session.events[1].timestamp_ms > 0

(***************************************************************************)
(* C24: reset succeeds from every session state: the session afterwards is  *)
(* a fresh idle one with no samples, no events and no control log, and the   *)
(* reply is a state frame with state idle and previous_state the state       *)
(* before the reset.                                                         *)
(***************************************************************************)
C24_Step ==
    \A m \in MachineIds :
        ( /\ CommandStep(m, {"reset"})
          /\ m \in DOMAIN instances )
        => /\ call'.reply =
                 StateMessage("idle", instances[m].session.state)
           /\ m \in DOMAIN instances'
           /\ instances'[m].session.state = "idle"
           /\ instances'[m].session.data = << >>
           /\ instances'[m].session.events = << >>
           /\ instances'[m].session.controls = EmptyDict
           /\ instances'[m].session.machine_name = instances[m].machine.name

C24_ResetFromEveryState == [][C24_Step]_vars

\* a finished recording with data was reset
C24_Witness ==
    /\ call.op = "handle_session_command"
    /\ call.action = "reset"
    /\ call.reply = StateMessage("idle", "finished")
    /\ "m1" \in DOMAIN instances
    /\ instances["m1"].session = RoastSession(instances["m1"].machine.name)
    /\ instances["m1"].prev_et # NoValue

IsPrefix(s, t) ==
    /\ Len(s) <= Len(t)
    /\ s = SubSeq(t, 1, Len(s))

(***************************************************************************)
(* C25: a successful start_recording leaves the session with no stored      *)
(* sample, no event and an empty control log, so that nothing stored before  *)
(* it (control changes logged while monitoring, data of an earlier           *)
(* recording) is in the profile to_profile exports afterwards: the export    *)
(* holds exactly the stored lists.  No other operation on a session removes  *)
(* a stored sample: across every other step the stored samples of a session  *)
(* are only extended (reset does not touch the session, it installs a new    *)
(* one).                                                                     *)
(***************************************************************************)
C25_Step ==
    \A m \in (DOMAIN instances) \cap (DOMAIN instances') :
        LET before == instances[m].session
            after == instances'[m].session
            exported == to_profile(after)
        IN /\ ( /\ CommandStep(m, {"start_recording"})
                /\ call'.reply.type = "state" )
              => /\ after.data = << >>
                 /\ after.events = << >>
                 /\ after.controls = EmptyDict
                 /\ exported.raised = "ValueError"
           /\ ~( \/ ( /\ CommandStep(m, {"start_recording"})
                      /\ call'.reply.type = "state" )
                 \/ CommandStep(m, {"reset"}) )
              => IsPrefix(before.data, after.data)
           /\ exported.raised = "none"
              => /\ exported.profile.temperatures = after.data
                 /\ exported.profile.events = after.events
                 /\ exported.profile.controls = after.controls

C25_StartRecordingClears == [][C25_Step]_vars

\* a recording was started from monitoring, after samples had been
\* broadcast, and nothing is stored in the session
C25_Witness ==
    /\ call.op = "handle_session_command"
    /\ call.action = "start_recording"
    /\ call.reply = StateMessage("recording", "monitoring")
    /\ "m1" \in DOMAIN instances
    /\ instances["m1"].ring_buffer # << >>
    /\ instances["m1"].session.data = << >>
    /\ instances["m1"].session.controls = EmptyDict
    /\ to_profile(instances["m1"].session).raised = "ValueError"

\* the previous operation connected m (creating its instance), or was a
\* command that started a session of m (start_monitoring, start_recording
\* or reset, answered with a state frame)
C26_SessionJustStarted(m) ==
    \/ /\ call.op = "connect_machine"
       /\ call.machine_id = m
       /\ call.created
    \/ /\ call.op = "handle_session_command"
       /\ call.machine_id = m
       /\ call.action \in {"start_monitoring", "start_recording", "reset"}
       /\ call.reply.type = "state"

(***************************************************************************)
(* C26: a temperature frame produced while prev_et (prev_bt) is undefined   *)
(* has et_ror (bt_ror) zero, and the temperature frame produced next after   *)
(* connect_machine, or next after a successful start_monitoring,             *)
(* start_recording or reset, has et_ror = bt_ror = 0.                        *)
(***************************************************************************)
C26_Step ==
    \A m \in DOMAIN instances :
        ( /\ SampleStep(m)
          /\ call'.outcome = "sample" )
        => /\ instances[m].prev_et = NoValue => call'.frame.et_ror = 0
           /\ instances[m].prev_bt = NoValue => call'.frame.bt_ror = 0
           /\ C26_SessionJustStarted(m)
                 => /\ call'.frame.et_ror = 0
                    /\ call'.frame.bt_ror = 0

C26_FirstFrameZeroRor == [][C26_Step]_vars


\* the edges of the driver's connection state the claim lists
C27_Edges ==
    {<<"disconnected", "connecting">>, <<"connecting", "connected">>,
     <<"connecting", "error">>, <<"connected", "error">>}
    \cup {<<from, "disconnected">> :
            from \in {"connecting", "connected", "error"}}

(***************************************************************************)
(* C27: the connection state of a Modbus driver changes only along the      *)
(* edges disconnected->connecting, connecting->connected,                    *)
(* connecting->error, connected->error (when a read or write fails on the    *)
(* transport) and any state->disconnected (on disconnect); connect() on a    *)
(* connected driver changes nothing and creates no transport client.         *)
(***************************************************************************)
C27_Step ==
    /\ modbus'.driver.state # modbus.driver.state
          => /\ <<modbus.driver.state, modbus'.driver.state>> \in C27_Edges
             /\ modbus'.driver.state = "disconnected"
                   => call'.op = "disconnect"
             /\ <<modbus.driver.state, modbus'.driver.state>>
                   = <<"connected", "error">>
                   => call'.op \in {"read_temperatures", "write_control"}
    /\ ( /\ call'.op = "connect"
         /\ modbus.pc = "idle"
         /\ modbus.driver.state = "connected" )
          => /\ modbus' = modbus
             /\ call'.opened = 0
             /\ call'.raised = "none"

C27_DriverStateEdges == [][C27_Step]_vars

(***************************************************************************)
(* C28: whenever connect() fails (the handshake raises, or returns with the *)
(* client unconnected), an error is raised to the caller, the driver state   *)
(* is error and the driver holds no transport client.                        *)
(***************************************************************************)
C28_Step ==
    ( /\ call'.op = "connect"
      /\ modbus.pc = "handshake" )
    => /\ call'.handshake \in {"unconnected", "raises"}
             => call'.raised # "none"
       /\ call'.raised # "none"
             => /\ modbus'.driver.state = "error"
                /\ modbus'.driver.client = None
                /\ modbus'.pc = "idle"
       /\ call'.raised = "none"
             => /\ call'.handshake = "connected"
                /\ modbus'.driver.state = "connected"
                /\ modbus'.driver.client # None

RoundOf(value10) ==
    LET floor == value10 \div 10
        tenths == value10 % 10
    IN IF tenths > 5 \/ (tenths = 5 /\ floor % 2 = 1)
       THEN floor + 1 ELSE floor

(***************************************************************************)
(* C29: the integer write_control substitutes for the placeholder of the    *)
(* command template, and so writes to the register, is round(value) for     *)
(* every native value.                                                       *)
(***************************************************************************)
C29_Step ==
    call'.op = "write_control"
    => \A i \in 1..Len(call'.writes) :
          call'.writes[i].value # NoValue
             => call'.writes[i].value = <<RoundOf(call'.value)>>

C29_WritesRoundedValue == [][C29_Step]_vars

(***************************************************************************)
(* C30: a command template runs its calls from left to right, with the      *)
(* value in the place of the placeholder; when call k fails on the           *)
(* transport the driver state becomes error, ConnectionError is raised, the  *)
(* calls before k have been written and no call after k is made.             *)
(***************************************************************************)
C30_Step ==
    \A control \in {GasControl, AirControl} :
        ( /\ call'.op = "write_control"
          /\ call'.channel = control.channel
          /\ _ensure_connected(modbus.driver) = "none" )
        => LET command == control.command
               k == call'.fail_at
               fails == k \in 1..Len(command)
               made == IF fails THEN k - 1 ELSE Len(command)
           IN /\ Len(call'.writes) = made
              /\ \A i \in 1..made :
                    /\ call'.writes[i].call = i
                    /\ call'.writes[i].func = command[i].func
                    /\ call'.writes[i].value =
                          IF command[i].placeholder
                          THEN <<IntOf(call'.value)>> ELSE NoValue
              /\ fails => /\ call'.raised = "ConnectionError"
                          /\ modbus'.driver.state = "error"
              /\ ~fails => /\ call'.raised = "none"
                           /\ modbus'.driver = modbus.driver

C30_CompoundCommandOrder == [][C30_Step]_vars

\* the second call of the air template failed after the first was written
C30_Witness ==
    /\ call.op = "write_control"
    /\ call.channel = "air"
    /\ call.fail_at = 2
    /\ call.raised = "ConnectionError"
    /\ Len(call.writes) = 1
    /\ call.writes[1].func = "writeSingle"
    /\ modbus.driver.state = "error"

\* no call of the simulator manager is suspended
SimQuiescent == \A c \in Callers : sim.task[c].pc = "idle"

(***************************************************************************)
(* C31: at most one simulator runs per catalog id: no two info records and  *)
(* no two listening servers share a catalog id, also while start() calls     *)
(* for one catalog id interleave; a start() that finds the catalog id        *)
(* registered raises ValueError before it creates a server or a              *)
(* SavedMachine.                                                             *)
(***************************************************************************)
C31_OneSimulatorPerCatalogId ==
    /\ \A i, j \in DOMAIN sim.info :
          sim.info[i].catalog_id = sim.info[j].catalog_id => i = j
    /\ \A c \in CatalogIds : sim.listening[c] <= 1
    /\ (call.op = "start" /\ call.raised = "ValueError")
          => ~call.suspended /\ call.machine_id = 0

(***************************************************************************)
(* C32: whenever no call is suspended in the simulator manager, the         *)
(* running servers, the info records and the SavedMachines the manager       *)
(* created have the same machine ids, also after a stop whose server         *)
(* shutdown raised; stop_all raises nothing.                                 *)
(***************************************************************************)
C32_SimulatorSetsAgree ==
    /\ SimQuiescent => /\ DOMAIN sim.instances = DOMAIN sim.info
                       /\ DOMAIN sim.info = sim.saved
    /\ call.op = "stop_all" => call.raised = "none"

\* two fractions denote the same number
SameNumber(a, b) == a.num * b.den = b.num * a.den

\* the value q / (2 * multiplier) is one the integer register config can
\* represent: a signed 16-bit integer, or for BCD a non-negative integer of
\* at most four decimal digits, once scaled by the multiplier
Representable(q, config) ==
    /\ q % 2 = 0
    /\ IF config.is_bcd THEN q \div 2 \in 0..9999
       ELSE q \div 2 \in -32768..32767

(***************************************************************************)
(* C33: for every integer register config (signed int16 or BCD, divisor     *)
(* index 0..3, mode C or empty) and every value the config can represent,    *)
(* decoding the register that encode_value produced gives the value back     *)
(* exactly.                                                                  *)
(***************************************************************************)
C33_DecodeInvertsEncode ==
    ( /\ call.op = "_read_register"
      /\ call.config.mode \in {"C", ""}
      /\ Representable(call.q, call.config) )
    => /\ Len(call.registers) = 1
       /\ SameNumber(call.decoded, ValueOf(call.q, call.config))

\* the signed value -32.768 (divisor index 3) came back from register 32768
C33_Witness ==
    /\ call.op = "_read_register"
    /\ call.config = [divisor |-> 3, mode |-> "", is_bcd |-> FALSE]
    /\ call.q = 2 * (-32768)
    /\ call.registers = <<32768>>
    /\ call.decoded = [num |-> -32768, den |-> 1000]

(***************************************************************************)
(* C40: every register encode_value returns is an integer in 0..65535:      *)
(* a signed 16-bit register is clamped (32767 above the range, 32768 below), *)
(* a BCD register is 0 for a negative value and has at most four nibbles.    *)
(***************************************************************************)
C40_RegisterRange ==
    call.op = "encode_value"
    => LET scaled10 == IF call.config.mode = "F"
                       THEN 9 * call.q + 320 * DivisorOf(call.config)
                       ELSE 5 * call.q
           rounded == RoundDiv(scaled10, 10)
       IN /\ \A i \in 1..Len(call.registers) :
                call.registers[i] \in 0..65535
          /\ (~call.config.is_bcd /\ rounded > 32767)
                => call.registers = <<32767>>
          /\ (~call.config.is_bcd /\ rounded < -32768)
                => call.registers = <<32768>>
          /\ (call.config.is_bcd /\ rounded < 0)
                => call.registers = <<0>>

C38_Step ==
    \A m \in DOMAIN instances :
        ( /\ sampling_task[m] = "running"
          /\ instances[m].consecutive_errors \in
                 1 .. (_MAX_CONSECUTIVE_ERRORS - 1)
          /\ call'.op = "_sampling_loop"
          /\ call'.machine_id = m
          /\ call'.transport = "ok"
          /\ ~call'.extra_fault )
        => /\ call'.outcome = "sample"
           /\ call'.frame.type = "temperature"
           /\ instances'[m].consecutive_errors = 0
           /\ sampling_task'[m] = "running"

\* C38: after a read failure that leaves the error counter below 5 the
\* sampling loop keeps running, and when the device answers the read
\* requests of the next iteration, that iteration produces a temperature
\* frame and resets the counter to 0.
C38_RecoversAfterTransientFailure == [][C38_Step]_vars

\* C39: a connect() that is cancelled while it awaits the transport
\* handshake leaves the driver in state disconnected or error and holding
\* no transport client.
C39_ConnectCancelSafe ==
    call.op = "connect_cancelled"
        => /\ modbus.driver.state \in {"disconnected", "error"}
           /\ modbus.driver.client = None

C35_Step ==
    /\ \A ws \in Observers, m \in DOMAIN instances' :
           handler'[ws].pc = "closed"
               => ws \notin instances'[m].subscribers
    /\ "sent_to" \in DOMAIN call'
          => \A ws \in call'.sent_to : handler'[ws].pc # "closed"

RunningLoops(m) ==
    connects.replaced[m].loops
    + (IF m \in DOMAIN instances /\ sampling_task[m] = "running"
       THEN 1 ELSE 0)

ConnectedDrivers(m) ==
    connects.replaced[m].drivers
    + (IF m \in DOMAIN instances /\ instances[m].driver.state = "connected"
       THEN 1 ELSE 0)

\* C36: whatever the sequence or interleaving of connect_machine and
\* disconnect_machine calls on a machine id, at any time at most one
\* sampling loop runs and at most one driver is connected for it.
C36_OneLoopOneDriver ==
    \A m \in MachineIds :
        /\ RunningLoops(m) <= 1
        /\ ConnectedDrivers(m) <= 1

C37_Step ==
    \A m \in DOMAIN instances :
        ( /\ call'.op = "_broadcast"
          /\ call'.machine_id = m )
        => /\ call'.raised = "none"
           /\ sampling_task'[m] = "running"
           /\ call'.outcome = "sample"
                 => (call'.members \cap instances[m].subscribers)
                        \subseteq (call'.delivered \cup {call'.ws})

\* C37: when an observer attaches, detaches or is evicted while a fan-out
\* is suspended in a send, the fan-out raises nothing, the observers that
\* remain still receive the frame, and the sampling loop does not end.
C37_FanoutUnaffectedByChanges == [][C37_Step]_vars

C34_Step ==
    \A m \in DOMAIN instances :
        /\ ( /\ call'.op = "_sampling_loop_begin"
             /\ call'.machine_id = m )
           => /\ fanout[m] = NoValue
              /\ instances'[m].ring_buffer =
                     RingAppend(instances[m].ring_buffer, call'.frame)
              /\ fanout'[m] # NoValue
                    => /\ fanout'[m][1].frame = call'.frame
                       /\ fanout'[m][1].current \in instances[m].subscribers
        /\ ( /\ call'.op = "_broadcast"
             /\ call'.machine_id = m )
           => /\ call'.frame = fanout[m][1].frame
              /\ call'.ws = fanout[m][1].current
              /\ call'.delivered \subseteq fanout[m][1].visited
              /\ fanout'[m] # NoValue
                    => /\ fanout'[m][1].frame = call'.frame
                       /\ fanout'[m][1].current \notin fanout[m][1].visited
                       /\ fanout'[m][1].current \in instances[m].subscribers
        /\ ( /\ fanout[m] # NoValue
             /\ call'.op # "_broadcast" )
           => fanout'[m] = fanout[m]

====
